---------------------------- MODULE Spec2Model ----------------------------
(***************************************************************************)
(* A state-machine model of baumdb, a small LSM key-value store.           *)
(*                                                                         *)
(* The engine (src/src/db.rs) keeps an active and a frozen memtable and    *)
(* hands rotated memtables to a background flush task.  The file handler   *)
(* (src/src/file_handling/) owns the levelled bundle registry, a flush     *)
(* task and a compaction task, connected by channels of capacity 1.        *)
(*                                                                         *)
(* Keys are modelled by small integers whose order is the byte-wise order  *)
(* of the key strings; values by small integers, value 1 being a short     *)
(* string and every other value a string of BlockThreshold bytes, so that  *)
(* tables with several data blocks occur.                                  *)
(*                                                                         *)
(* src/src/db.rs reads bundles through `file_path_bundles()` of the        *)
(* handler it locks; the crate root (src/src/lib.rs) declares the module   *)
(* file_handling, whose registry yields the visible bundles through        *)
(* FileBundlesLevelled::iter.  The model wires the engine to that          *)
(* registry (VisibleBundles).  The older handler src/src/file_handler.rs,  *)
(* which db.rs names in its imports, is modelled separately (SpecFH).      *)
(***************************************************************************)
EXTENDS Integers, Sequences, FiniteSets, TLC

(***************************************************************************)
(* Bounds of the model.                                                    *)
(***************************************************************************)
NKeys == 2
NVals == 2
MaxOps == 4
MaxOpsIo == 4
MaxOpsSignalled == 2
MaxCallKeys == 3
MaxCommits == 9
MaxPushes == 5
MaxDistinctKeys == 5
MaxMemtableSize == 2
MaxIoFailures == 1

(***************************************************************************)
(* Program constants.                                                      *)
(***************************************************************************)
L0Threshold == 4
L1Threshold == 8
ChannelCapacity == 1
BlockThreshold == 4096
LenPrefixBytes == 8

Keys == 1..NKeys
Values == 1..NVals

(***************************************************************************)
(* MemValue and the BTreeMap behind MemTable (src/src/memtable.rs).        *)
(* A table is a function from the set of keys it holds to MemValue.        *)
(***************************************************************************)
Put(v) == [kind |-> "Put", value |-> v]
Delete == [kind |-> "Delete", value |-> 0]

EmptyTable == [k \in {} |-> Delete]

TableInsert(t, k, mv) == [x \in (DOMAIN t) \cup {k} |-> IF x = k THEN mv ELSE t[x]]
TableRemove(t, k) == [x \in (DOMAIN t) \ {k} |-> t[x]]
len(t) == Cardinality(DOMAIN t)

MemTablePut(t, k, v) == TableInsert(t, k, Put(v))

\* delete: `if self.0.remove(key).is_none() { insert(key, Delete) }`
MemTableDelete(t, k) ==
    IF k \in DOMAIN t THEN TableRemove(t, k) ELSE TableInsert(t, k, Delete)

\* Results of a read: None, Some(v) (the value itself), or an error.
GetNone == 0
GetErr == 0 - 1
Some(v) == v

memtable_get_inner(t, k) ==
    IF k \in DOMAIN t /\ t[k].kind = "Put" THEN Some(t[k].value) ELSE GetNone

(***************************************************************************)
(* Iteration of a BTreeMap in key order.                                   *)
(***************************************************************************)
MinOf(S) == CHOOSE x \in S : \A y \in S : x <= y

RECURSIVE SortedSeq(_)
SortedSeq(S) == IF S = {} THEN << >>
                ELSE LET m == MinOf(S) IN << m >> \o SortedSeq(S \ {m})

into_iter(t) == [i \in 1..len(t) |-> [key |-> SortedSeq(DOMAIN t)[i],
                                       value |-> t[SortedSeq(DOMAIN t)[i]]]]

(***************************************************************************)
(* Byte sizes of the encoded records (src/src/serialization.rs).           *)
(***************************************************************************)
KeyBytes(k) == 1
ValueBytes(v) == IF v = 1 THEN 1 ELSE BlockThreshold

RecordBytes(e) ==
    LenPrefixBytes + KeyBytes(e.key) + 1
      + (IF e.value.kind = "Put" THEN LenPrefixBytes + ValueBytes(e.value.value) ELSE 0)

\* Length of the gzip stream of a block holding `n` bytes of records.
GzLen(n) == 18 + n

(***************************************************************************)
(* Bloom filter (src/src/bloom_filter.rs).  hash_key builds a vector of    *)
(* n_hashes zeros and pushes one index per round after them, so index 0    *)
(* is always among the indices.                                            *)
(***************************************************************************)
BloomSize == 4
NHashes == 2
HashRound(k, i) == (k * (i + 1) + i) % BloomSize
hash_key(k) == {0} \cup {HashRound(k, i) : i \in 0..(NHashes - 1)}
add_key(filter, k) == filter \cup hash_key(k)
may_contain_key(filter, k) == hash_key(k) \subseteq filter

(***************************************************************************)
(* Serialize for MemTable: the fold over the entries in key order.         *)
(*   main_data : the data file, a sequence of blocks; a block keeps the    *)
(*               length of its gzip stream and the records it holds        *)
(*   offsets   : the index file, one (key, offset) entry per block         *)
(*   bloom_filter                                                          *)
(* The fold state also holds the records written to the current encoder,   *)
(* the key of the index entry under construction, encoded_bytes and        *)
(* offset_counter.                                                         *)
(***************************************************************************)
SerializedFoldStateNew ==
    [main_data |-> << >>, offsets |-> << >>, bloom_filter |-> {},
     encoder |-> << >>, index_key |-> 0, encoded_bytes |-> 0, offset_counter |-> 0]

SerializeStep(state, e, is_last) ==
    LET index_key == IF state.encoded_bytes = 0 THEN e.key ELSE state.index_key
        encoder == Append(state.encoder, e)
        encoded_bytes == state.encoded_bytes + RecordBytes(e)
        bloom == add_key(state.bloom_filter, e.key)
    IN IF encoded_bytes >= BlockThreshold \/ is_last
       THEN LET encoded_len == GzLen(encoded_bytes)
            IN [main_data |-> Append(state.main_data,
                                     [len |-> encoded_len, records |-> encoder]),
                offsets |-> Append(state.offsets,
                                   [key |-> index_key, offset |-> state.offset_counter]),
                bloom_filter |-> bloom,
                encoder |-> << >>, index_key |-> 0, encoded_bytes |-> 0,
                offset_counter |-> state.offset_counter + encoded_len]
       ELSE [state EXCEPT !.bloom_filter = bloom, !.encoder = encoder,
                          !.index_key = index_key, !.encoded_bytes = encoded_bytes]

RECURSIVE SerializeFold(_, _, _)
SerializeFold(state, entries, idx) ==
    IF idx > Len(entries) THEN state
    ELSE SerializeFold(SerializeStep(state, entries[idx], idx = Len(entries)),
                       entries, idx + 1)

serialize(t) ==
    LET r == SerializeFold(SerializedFoldStateNew, into_iter(t), 1)
    IN [main_data |-> r.main_data, offsets |-> r.offsets, bloom_filter |-> r.bloom_filter]

(***************************************************************************)
(* Reading a data file.                                                    *)
(***************************************************************************)
\* Byte position in the data file of the length prefix of block i.
RECURSIVE BlockPosition(_, _)
BlockPosition(main_data, i) ==
    IF i = 1 THEN 0
    ELSE BlockPosition(main_data, i - 1) + LenPrefixBytes + main_data[i - 1].len

\* The block found by seeking to `offset`: the block framed at that byte
\* position, or a decode error (<< >> flagged by ok = FALSE) when no block
\* starts there.
ReadBlockAt(main_data, offset) ==
    LET hits == {i \in 1..Len(main_data) : BlockPosition(main_data, i) = offset}
    IN IF hits = {} THEN [ok |-> FALSE, records |-> << >>]
       ELSE [ok |-> TRUE, records |-> main_data[CHOOSE i \in hits : TRUE].records]

\* MemTable::try_from_file: every block in file order, every record inserted.
RECURSIVE InsertAll(_, _, _)
InsertAll(t, records, i) ==
    IF i > Len(records) THEN t
    ELSE InsertAll(TableInsert(t, records[i].key, records[i].value), records, i + 1)

RECURSIVE TableFromBlocks(_, _, _)
TableFromBlocks(t, main_data, i) ==
    IF i > Len(main_data) THEN t
    ELSE TableFromBlocks(InsertAll(t, main_data[i].records, 1), main_data, i + 1)

try_from_file(main_data) == TableFromBlocks(EmptyTable, main_data, 1)

(***************************************************************************)
(* Levels, bundles and the registry (src/src/file_handling/file_bundle.rs).*)
(* A bundle is [id, level, seq]; its three paths are <<level, kind, seq>>.  *)
(* FileBundleId is a fresh Uuid, modelled by a counter.                    *)
(***************************************************************************)
L0 == 0
L1 == 1
L2 == 2
NoLevel == 3

next_level(level) == IF level = L0 THEN L1 ELSE IF level = L1 THEN L2 ELSE NoLevel

NoBundle == [id |-> 0, level |-> L0, seq |-> 0]

main_data_file_path(b) == << b.level, "data", b.seq >>
index_file_path(b) == << b.level, "index", b.seq >>
bloom_filter_file_path(b) == << b.level, "bloom", b.seq >>
BundlePaths(b) == {main_data_file_path(b), index_file_path(b), bloom_filter_file_path(b)}

FileBundlesLevelledNew == [l0 |-> << >>, l1 |-> << >>, l2 |-> << >>]

LevelList(fb, level) == IF level = L0 THEN fb.l0 ELSE IF level = L1 THEN fb.l1 ELSE fb.l2

\* FileBundlesLevelled::iter: l0 front to back, then l1, then l2.
VisibleBundles(fb) == fb.l0 \o fb.l1 \o fb.l2

\* new_file_bundle: the name is the current length of the level's list.
new_file_bundle(fb, level, id) ==
    [id |-> id, level |-> level, seq |-> Len(LevelList(fb, level))]

push_front(list, b) == << b >> \o list

commit_file_bundle(fb, b) ==
    IF b.level = L0 THEN [fb EXCEPT !.l0 = push_front(fb.l0, b)]
    ELSE IF b.level = L1 THEN [fb EXCEPT !.l1 = push_front(fb.l1, b)]
    ELSE [fb EXCEPT !.l2 = push_front(fb.l2, b)]

\* A ShouldCompact that asks for more bundles than the threshold.
should_compact_above(fb, level) ==
    IF level = L0 THEN Len(fb.l0) > L0Threshold
    ELSE IF level = L1 THEN Len(fb.l1) > L1Threshold
    ELSE FALSE

\* ShouldCompact of a commit, evaluated on the registry after the insertion.
should_compact(fb, level) ==
    IF level = L0 THEN Len(fb.l0) >= L0Threshold
    ELSE IF level = L1 THEN Len(fb.l1) >= L1Threshold
    ELSE FALSE

SelectSeq2(list, ids, keep) ==
    SelectSeq(list, LAMBDA b : (b.id \in ids) = keep)

\* A removal that looks at the first level only.
remove_bundles_lists_l0_only(fb, ids) ==
    [l0 |-> SelectSeq2(fb.l0, ids, FALSE), l1 |-> fb.l1, l2 |-> fb.l2]

\* remove_bundles, the part under the write lock: the lists without the
\* bundles whose ids are given, and the removed bundles in removal order.
remove_bundles_lists(fb, ids) ==
    [l0 |-> SelectSeq2(fb.l0, ids, FALSE),
     l1 |-> SelectSeq2(fb.l1, ids, FALSE),
     l2 |-> SelectSeq2(fb.l2, ids, FALSE)]

files_to_delete(fb, ids) ==
    SelectSeq2(fb.l0, ids, TRUE) \o SelectSeq2(fb.l1, ids, TRUE) \o SelectSeq2(fb.l2, ids, TRUE)

(***************************************************************************)
(* The directory: a function from the paths that exist to their content.   *)
(***************************************************************************)
NoFiles == [p \in {} |-> << >>]
Exists(d, path) == path \in DOMAIN d
AddFile(d, path, content) ==
    [p \in (DOMAIN d) \cup {path} |-> IF p = path THEN content ELSE d[p]]
RemoveFiles(d, paths) == [p \in (DOMAIN d) \ paths |-> d[p]]

\* OpenOptions::new().write(true).create_new(true).open(path) followed by
\* write_all(content).  `fail` injects an I/O failure: "create" (the file is
\* not created) or "write" (the file is created and nothing is written).
CreateAndWrite(d, path, content, empty, fail) ==
    IF Exists(d, path) \/ fail = "create" THEN [disk |-> d, ok |-> FALSE]
    ELSE IF fail = "write" THEN [disk |-> AddFile(d, path, empty), ok |-> FALSE]
    ELSE [disk |-> AddFile(d, path, content), ok |-> TRUE]

FailOf(f, n) == IF f.at = n THEN f.mode ELSE "none"

\* flushing.rs flush, the three file writes in order: data, index, bloom.
WriteBundleFiles(d, b, data, f) ==
    LET r1 == CreateAndWrite(d, main_data_file_path(b), data.main_data, << >>, FailOf(f, 1))
        r2 == CreateAndWrite(r1.disk, index_file_path(b), data.offsets, << >>, FailOf(f, 2))
        r3 == CreateAndWrite(r2.disk, bloom_filter_file_path(b), data.bloom_filter, {}, FailOf(f, 3))
    IN IF ~r1.ok THEN r1 ELSE IF ~r2.ok THEN r2 ELSE r3

NoFailure == [at |-> 0, mode |-> "none"]
InjectedFailures == {[at |-> n, mode |-> m] : n \in 1..3, m \in {"create", "write"}}

(***************************************************************************)
(* The read of one bundle in BaumDb::get (src/src/db.rs 58-108).           *)
(* Result: [found, result]; found = FALSE means "continue with the next    *)
(* bundle".                                                                *)
(***************************************************************************)
Miss == [found |-> FALSE, result |-> GetNone]
Hit(r) == [found |-> TRUE, result |-> r]

\* `index_iter.next_if(|(idx, _)| idx < key).or_else(|| index_iter.next())`:
\* whether or not the first entry is below the key, the first entry is taken.
PickIndexEntry(index_vec, key) ==
    IF Len(index_vec) = 0 THEN 0
    ELSE IF index_vec[1].key < key THEN 1 ELSE 1

RECURSIVE ScanRecords(_, _, _)
ScanRecords(records, key, i) ==
    IF i > Len(records) THEN Miss
    ELSE IF records[i].key = key
         THEN (IF records[i].value.kind = "Put"
               THEN Hit(Some(records[i].value.value)) ELSE Hit(GetNone))
         ELSE ScanRecords(records, key, i + 1)

BundleGet(d, b, key) ==
    IF ~Exists(d, index_file_path(b)) THEN Hit(GetErr)
    ELSE LET index_vec == d[index_file_path(b)]
             e == PickIndexEntry(index_vec, key)
         IN IF e = 0 THEN Miss
            ELSE IF ~Exists(d, main_data_file_path(b)) THEN Hit(GetErr)
            ELSE LET block == ReadBlockAt(d[main_data_file_path(b)], index_vec[e].offset)
                 IN IF ~block.ok THEN Hit(GetErr)
                    ELSE ScanRecords(block.records, key, 1)

RECURSIVE ScanBundles(_, _, _)
ScanBundles(d, bundles, key) ==
    IF bundles = << >> THEN GetNone
    ELSE LET r == BundleGet(d, Head(bundles), key)
         IN IF r.found THEN r.result ELSE ScanBundles(d, Tail(bundles), key)

\* BaumDb::get evaluated in one piece on a given store.
GetOn(main, secondary, fb, d, key) ==
    IF memtable_get_inner(main, key) # GetNone THEN memtable_get_inner(main, key)
    ELSE IF memtable_get_inner(secondary, key) # GetNone
         THEN memtable_get_inner(secondary, key)
         ELSE ScanBundles(d, VisibleBundles(fb), key)

(***************************************************************************)
(* The merge of a compaction run (src/src/file_handling/compaction.rs).    *)
(***************************************************************************)
Reverse(s) == [i \in 1..Len(s) |-> s[Len(s) + 1 - i]]

\* One newer table merged into the merger: Put inserts, Delete removes.
RECURSIVE MergeEntries(_, _, _)
MergeEntries(merger, entries, i) ==
    IF i > Len(entries) THEN merger
    ELSE MergeEntries(IF entries[i].value.kind = "Put"
                      THEN TableInsert(merger, entries[i].key, entries[i].value)
                      ELSE TableRemove(merger, entries[i].key),
                      entries, i + 1)

\* bundles: oldest first.  The oldest table is the merger as loaded.
RECURSIVE MergeBundles(_, _, _, _)
MergeBundles(merger, d, bundles, i) ==
    IF i > Len(bundles) THEN merger
    ELSE MergeBundles(MergeEntries(merger,
                                   into_iter(try_from_file(d[main_data_file_path(bundles[i])])), 1),
                      d, bundles, i + 1)

merger_table(d, oldest_first) ==
    MergeBundles(try_from_file(d[main_data_file_path(oldest_first[1])]), d, oldest_first, 2)

BundleIds(list) == {list[i].id : i \in 1..Len(list)}

(***************************************************************************)
(* State.                                                                  *)
(***************************************************************************)
VARIABLES
    main_table,         \* BaumDb.main_table
    secondary_table,    \* BaumDb.secondary_table
    max_memtable_size,  \* BaumDb.max_memtable_size
    client,             \* the writer task: "idle", or "send" inside flush_sender.send
    db_flush_chan,      \* the channel of db.rs (capacity 1) holding rotated memtables
    db_task,            \* the flush task spawned by BaumDb::new
    fh_flush_chan,      \* SstFileHandler.flush_sender: the FlushData queue
    response_channel,   \* the oneshot reply of the FlushData being processed
    compaction_chan,    \* number of units buffered in the compaction signal
    flush_task,         \* the flush task spawned by SstFileHandler::new
    compact_task,       \* the compaction task spawned by SstFileHandler::new
    file_bundles,       \* FileBundlesLevelled: l0, l1, l2
    disk,               \* the files of the engine directory
    next_id,            \* next fresh FileBundleId
    get_task,           \* a get in progress
    flush_ret,          \* what SstFileHandler::flush last returned, and for which result
    expected,           \* history: per key, the result of the last put/delete
    ops_left,           \* number of put/delete the workload may still issue
    io_budget,          \* number of I/O failures the environment may still inject
    run_pre,            \* history: reads recorded when a compaction run started
    call                \* the value a function of the code is applied to, step by step

vars == << main_table, secondary_table, max_memtable_size, client, db_flush_chan,
           db_task, fh_flush_chan, response_channel, compaction_chan, flush_task,
           compact_task, file_bundles, disk, next_id, get_task, flush_ret,
           expected, ops_left, io_budget, run_pre, call >>

engine_vars == << main_table, secondary_table, max_memtable_size, client, db_flush_chan >>

NoData == [main_data |-> << >>, offsets |-> << >>, bloom_filter |-> {}]
DbTaskIdle == [pc |-> "recv", memtable |-> EmptyTable]
FlushTaskIdle == [pc |-> "recv", data |-> NoData, bundle |-> NoBundle]
CompactTaskIdle == [pc |-> "idle", level |-> L0, inputs |-> {}, data |-> NoData,
                    bundle |-> NoBundle, should_compact |-> FALSE, to_delete |-> << >>]
CompactTaskDead == [CompactTaskIdle EXCEPT !.pc = "dead"]
GetTaskIdle == [pc |-> "idle", key |-> 0, bundles |-> << >>, result |-> GetNone,
                quiescent |-> GetNone]
NoRun == [phase |-> "none", get |-> [k \in Keys |-> GetNone]]
NoFlushRet == [result |-> "none", returned |-> "none"]
NoCall == [fn |-> "none"]

Init ==
    /\ main_table = EmptyTable
    /\ secondary_table = EmptyTable
    /\ max_memtable_size \in 1..MaxMemtableSize
    /\ client = "idle"
    /\ db_flush_chan = << >>
    /\ db_task = DbTaskIdle
    /\ fh_flush_chan = << >>
    /\ response_channel = "none"
    /\ compaction_chan = 0
    /\ flush_task = FlushTaskIdle
    /\ compact_task = CompactTaskIdle
    /\ file_bundles = FileBundlesLevelledNew
    /\ disk = NoFiles
    /\ next_id = 1
    /\ get_task = GetTaskIdle
    /\ flush_ret = NoFlushRet
    /\ expected = [k \in Keys |-> GetNone]
    /\ ops_left = MaxOps
    /\ io_budget = 0
    /\ run_pre = NoRun
    /\ call = NoCall

\* The write lock on the file handler is held by db_task from the lock to the
\* return of flush ("await" with file_handling, "write" with file_handler.rs).
FileHandlerWriteLocked == db_task.pc \in {"await", "write"}

\* What get returns on the current store when nothing runs beside it.
GetQuiescent(k) == GetOn(main_table, secondary_table, file_bundles, disk, k)

\* A put/delete or a commit by the flush task ends the comparison of reads
\* across a compaction run.
RunDisturbed == run_pre' = NoRun

(***************************************************************************)
(* The writer: put, delete (src/src/db.rs 115-124, 159-173).               *)
(***************************************************************************)
\* A flush_memtable whose send never waits: the memtable is queued whatever
\* the channel holds.
maybe_flush_memtable_unbounded(t) ==
    IF len(t) >= max_memtable_size
    THEN /\ main_table' = EmptyTable
         /\ secondary_table' = t
         /\ db_flush_chan' = Append(db_flush_chan, t)
         /\ client' = "idle"
    ELSE /\ main_table' = t
         /\ UNCHANGED << secondary_table, db_flush_chan, client >>

\* A maybe_flush_memtable that rotates only above max_memtable_size.
maybe_flush_memtable_above(t) ==
    IF len(t) > max_memtable_size
    THEN /\ main_table' = EmptyTable
         /\ secondary_table' = t
         /\ IF Len(db_flush_chan) < ChannelCapacity
            THEN db_flush_chan' = Append(db_flush_chan, t) /\ client' = "idle"
            ELSE db_flush_chan' = db_flush_chan /\ client' = "send"
    ELSE /\ main_table' = t
         /\ UNCHANGED << secondary_table, db_flush_chan, client >>

\* maybe_flush_memtable / flush_memtable on the table `t` left by the operation.
maybe_flush_memtable(t) ==
    IF len(t) >= max_memtable_size
    THEN /\ main_table' = EmptyTable
         /\ secondary_table' = t
         /\ IF Len(db_flush_chan) < ChannelCapacity
            THEN db_flush_chan' = Append(db_flush_chan, t) /\ client' = "idle"
            ELSE db_flush_chan' = db_flush_chan /\ client' = "send"
    ELSE /\ main_table' = t
         /\ UNCHANGED << secondary_table, db_flush_chan, client >>

ClientMayWrite == client = "idle" /\ get_task.pc = "idle" /\ ops_left > 0

put(k, v) ==
    /\ ClientMayWrite
    /\ maybe_flush_memtable(MemTablePut(main_table, k, v))
    /\ expected' = [expected EXCEPT ![k] = Some(v)]
    /\ ops_left' = ops_left - 1
    /\ RunDisturbed
    /\ UNCHANGED << call, max_memtable_size, db_task, fh_flush_chan, response_channel,
                    compaction_chan, flush_task, compact_task, file_bundles, disk,
                    next_id, get_task, flush_ret, io_budget >>

delete(k) ==
    /\ ClientMayWrite
    /\ maybe_flush_memtable(MemTableDelete(main_table, k))
    /\ expected' = [expected EXCEPT ![k] = GetNone]
    /\ ops_left' = ops_left - 1
    /\ RunDisturbed
    /\ UNCHANGED << call, max_memtable_size, db_task, fh_flush_chan, response_channel,
                    compaction_chan, flush_task, compact_task, file_bundles, disk,
                    next_id, get_task, flush_ret, io_budget >>

\* The send of flush_memtable completes once the channel has room.
ClientSend ==
    /\ client = "send"
    /\ Len(db_flush_chan) < ChannelCapacity
    /\ db_flush_chan' = Append(db_flush_chan, secondary_table)
    /\ client' = "idle"
    /\ UNCHANGED << call, main_table, secondary_table, max_memtable_size, db_task,
                    fh_flush_chan, response_channel, compaction_chan, flush_task,
                    compact_task, file_bundles, disk, next_id, get_task, flush_ret,
                    expected, ops_left, io_budget, run_pre >>

(***************************************************************************)
(* The flush task of BaumDb::new (src/src/db.rs 142-148) and               *)
(* SstFileHandler::flush (src/src/file_handling/mod.rs 105-117).           *)
(***************************************************************************)
DbRecv ==
    /\ db_task.pc = "recv"
    /\ db_flush_chan # << >>
    /\ db_task' = [pc |-> "lock", memtable |-> Head(db_flush_chan)]
    /\ db_flush_chan' = Tail(db_flush_chan)
    /\ UNCHANGED << call, main_table, secondary_table, max_memtable_size, client,
                    fh_flush_chan, response_channel, compaction_chan, flush_task,
                    compact_task, file_bundles, disk, next_id, get_task, flush_ret,
                    expected, ops_left, io_budget, run_pre >>

\* file_handler.write().await, then flush: the FlushData is sent.
DbLockAndSend ==
    /\ db_task.pc = "lock"
    /\ Len(fh_flush_chan) < ChannelCapacity
    /\ fh_flush_chan' = Append(fh_flush_chan, db_task.memtable)
    /\ db_task' = [pc |-> "await", memtable |-> EmptyTable]
    /\ UNCHANGED << call, engine_vars, response_channel, compaction_chan, flush_task,
                    compact_task, file_bundles, disk, next_id, get_task, flush_ret,
                    expected, ops_left, io_budget, run_pre >>

\* `let _ = rx.await?; Ok(())`: the result received is dropped.
flush_return(result) == "Ok"

\* The reply arrives, flush returns, the lock is dropped.
DbReply ==
    /\ db_task.pc = "await"
    /\ response_channel # "none"
    /\ flush_ret' = [result |-> response_channel, returned |-> flush_return(response_channel)]
    /\ response_channel' = "none"
    /\ db_task' = DbTaskIdle
    /\ UNCHANGED << call, engine_vars, fh_flush_chan, compaction_chan, flush_task,
                    compact_task, file_bundles, disk, next_id, get_task,
                    expected, ops_left, io_budget, run_pre >>

(***************************************************************************)
(* The flush task of SstFileHandler::new (mod.rs 76-94) running            *)
(* flushing.rs flush at L0.                                                *)
(***************************************************************************)
FailureChoices == IF io_budget > 0 THEN {NoFailure} \cup InjectedFailures
                  ELSE {NoFailure}
Count(f) == IF f = NoFailure THEN 0 ELSE 1

\* recv, serialize, new_file_bundle(L0).
FlushRecv ==
    /\ flush_task.pc = "recv"
    /\ fh_flush_chan # << >>
    /\ flush_task' = [pc |-> "write", data |-> serialize(Head(fh_flush_chan)),
                      bundle |-> new_file_bundle(file_bundles, L0, next_id)]
    /\ fh_flush_chan' = Tail(fh_flush_chan)
    /\ next_id' = next_id + 1
    /\ UNCHANGED << call, engine_vars, db_task, response_channel, compaction_chan,
                    compact_task, file_bundles, disk, get_task, flush_ret,
                    expected, ops_left, io_budget, run_pre >>

\* The three files are written; on an error the result goes to the reply.
FlushWrite ==
    /\ flush_task.pc = "write"
    /\ \E f \in FailureChoices :
         LET w == WriteBundleFiles(disk, flush_task.bundle, flush_task.data, f)
         IN /\ disk' = w.disk
            /\ io_budget' = io_budget - Count(f)
            /\ IF w.ok
               THEN /\ flush_task' = [flush_task EXCEPT !.pc = "commit"]
                    /\ UNCHANGED response_channel
               ELSE /\ flush_task' = FlushTaskIdle
                    /\ response_channel' = "Err"
    /\ UNCHANGED << call, engine_vars, db_task, fh_flush_chan, compaction_chan,
                    compact_task, file_bundles, next_id, get_task, flush_ret,
                    expected, ops_left, run_pre >>

\* A flush task that sends the reply and leaves the bundle uncommitted.
FlushCommitReplyOnly ==
    /\ flush_task.pc = "commit"
    /\ flush_task' = FlushTaskIdle
    /\ response_channel' = "Ok"
    /\ UNCHANGED << call, engine_vars, db_task, fh_flush_chan, compaction_chan,
                    compact_task, file_bundles, disk, next_id, get_task, flush_ret,
                    expected, ops_left, io_budget, run_pre >>

\* commit_file_bundle; with ShouldCompact::No the reply is sent at once.
FlushCommit ==
    /\ flush_task.pc = "commit"
    /\ file_bundles' = commit_file_bundle(file_bundles, flush_task.bundle)
    /\ IF should_compact(file_bundles', L0)
       THEN /\ flush_task' = [flush_task EXCEPT !.pc = "signal"]
            /\ UNCHANGED response_channel
       ELSE /\ flush_task' = FlushTaskIdle
            /\ response_channel' = "Ok"
    /\ RunDisturbed
    /\ UNCHANGED << call, engine_vars, db_task, fh_flush_chan, compaction_chan,
                    compact_task, disk, next_id, get_task, flush_ret,
                    expected, ops_left, io_budget >>

\* A send of the signal that goes on waiting when the receiver is gone.
FlushSignalWaitingForReceiver ==
    /\ flush_task.pc = "signal"
    /\ compaction_chan < ChannelCapacity
    /\ compaction_chan' = compaction_chan + 1
    /\ flush_task' = FlushTaskIdle
    /\ response_channel' = "Ok"
    /\ UNCHANGED << call, engine_vars, db_task, fh_flush_chan, compact_task, file_bundles,
                    disk, next_id, get_task, flush_ret, expected, ops_left, io_budget,
                    run_pre >>

\* compaction_tx.send(()).await, then the reply.  The send waits while the
\* signal is full and fails at once when the receiver is gone.
FlushSignal ==
    /\ flush_task.pc = "signal"
    /\ \/ /\ compact_task.pc = "dead"
          /\ UNCHANGED compaction_chan
       \/ /\ compact_task.pc # "dead"
          /\ compaction_chan < ChannelCapacity
          /\ compaction_chan' = compaction_chan + 1
    /\ flush_task' = FlushTaskIdle
    /\ response_channel' = "Ok"
    /\ UNCHANGED << call, engine_vars, db_task, fh_flush_chan, compact_task, file_bundles,
                    disk, next_id, get_task, flush_ret, expected, ops_left, io_budget,
                    run_pre >>

(***************************************************************************)
(* The compaction task of SstFileHandler::new (mod.rs 69-74) running       *)
(* Compaction::compact (compaction.rs 23-85).                              *)
(***************************************************************************)
FinishRun ==
    run_pre' = IF run_pre.phase = "running" THEN [run_pre EXCEPT !.phase = "finished"]
               ELSE run_pre

\* A unit is received and compact() starts at L0.
CompactRecv ==
    /\ compact_task.pc = "idle"
    /\ compaction_chan > 0
    /\ compaction_chan' = compaction_chan - 1
    /\ compact_task' = [CompactTaskIdle EXCEPT !.pc = "snapshot"]
    /\ run_pre' = [phase |-> "running", get |-> [k \in Keys |-> GetQuiescent(k)]]
    /\ UNCHANGED << call, engine_vars, db_task, fh_flush_chan, response_channel, flush_task,
                    file_bundles, disk, next_id, get_task, flush_ret, expected, ops_left,
                    io_budget >>

LoadFailureChoices == IF io_budget > 0 THEN {FALSE, TRUE} ELSE {FALSE}

\* One turn of the loop up to the call of flush: the snapshot of the level,
\* the load of its bundles oldest first, the merge, and, for a merger that
\* is not empty, serialize and new_file_bundle(next_level).
CompactSnapshot ==
    /\ compact_task.pc = "snapshot"
    /\ \E load_fails \in LoadFailureChoices :
         LET level == compact_task.level
             bundles == LevelList(file_bundles, level)
             oldest_first == Reverse(bundles)
             loadable == \A i \in 1..Len(bundles) : Exists(disk, main_data_file_path(bundles[i]))
             merger == merger_table(disk, oldest_first)
         IN /\ io_budget' = io_budget - (IF load_fails THEN 1 ELSE 0)
            /\ IF next_level(level) = NoLevel \/ bundles = << >>
               THEN /\ ~load_fails
                    /\ compact_task' = CompactTaskIdle /\ FinishRun /\ UNCHANGED next_id
               ELSE IF load_fails \/ ~loadable
               THEN compact_task' = CompactTaskIdle /\ FinishRun /\ UNCHANGED next_id
               ELSE IF len(merger) = 0
               THEN compact_task' = CompactTaskIdle /\ FinishRun /\ UNCHANGED next_id
               ELSE /\ compact_task' =
                         [compact_task EXCEPT
                            !.pc = "write",
                            !.inputs = BundleIds(bundles),
                            !.data = serialize(merger),
                            !.bundle = new_file_bundle(file_bundles, next_level(level), next_id)]
                    /\ next_id' = next_id + 1
                    /\ UNCHANGED run_pre
    /\ UNCHANGED << call, engine_vars, db_task, fh_flush_chan, response_channel,
                    compaction_chan, flush_task, file_bundles, disk, get_task,
                    flush_ret, expected, ops_left >>

\* A run that takes its inputs out of the registry when the write of its
\* output fails.
CompactWriteRemovingInputs ==
    /\ compact_task.pc = "write"
    /\ \E f \in FailureChoices :
         LET w == WriteBundleFiles(disk, compact_task.bundle, compact_task.data, f)
         IN /\ disk' = w.disk
            /\ io_budget' = io_budget - Count(f)
            /\ IF w.ok
               THEN /\ compact_task' = [compact_task EXCEPT !.pc = "commit"]
                    /\ UNCHANGED << run_pre, file_bundles >>
               ELSE /\ compact_task' = CompactTaskIdle
                    /\ FinishRun
                    /\ file_bundles' = remove_bundles_lists(file_bundles, compact_task.inputs)
    /\ UNCHANGED << call, engine_vars, db_task, fh_flush_chan, response_channel,
                    compaction_chan, flush_task, next_id, get_task,
                    flush_ret, expected, ops_left >>

\* flush(merger, next_level): the three files; an error ends the run.
CompactWrite ==
    /\ compact_task.pc = "write"
    /\ \E f \in FailureChoices :
         LET w == WriteBundleFiles(disk, compact_task.bundle, compact_task.data, f)
         IN /\ disk' = w.disk
            /\ io_budget' = io_budget - Count(f)
            /\ IF w.ok
               THEN compact_task' = [compact_task EXCEPT !.pc = "commit"] /\ UNCHANGED run_pre
               ELSE compact_task' = CompactTaskIdle /\ FinishRun
    /\ UNCHANGED << call, engine_vars, db_task, fh_flush_chan, response_channel,
                    compaction_chan, flush_task, file_bundles, next_id, get_task,
                    flush_ret, expected, ops_left >>

\* A run whose output is never inserted into the registry.
CompactCommitSkipped ==
    /\ compact_task.pc = "commit"
    /\ compact_task' = [compact_task EXCEPT !.pc = "remove"]
    /\ UNCHANGED << call, engine_vars, db_task, fh_flush_chan, response_channel,
                    compaction_chan, flush_task, file_bundles, disk, next_id,
                    get_task, flush_ret, expected, ops_left, io_budget, run_pre >>

\* A commit that answers Yes whatever the length of the level.
CompactCommitAlwaysYes ==
    /\ compact_task.pc = "commit"
    /\ file_bundles' = commit_file_bundle(file_bundles, compact_task.bundle)
    /\ compact_task' = [compact_task EXCEPT !.pc = "remove", !.should_compact = TRUE]
    /\ UNCHANGED << call, engine_vars, db_task, fh_flush_chan, response_channel,
                    compaction_chan, flush_task, disk, next_id, get_task, flush_ret,
                    expected, ops_left, io_budget, run_pre >>

\* flush(merger, next_level): commit_file_bundle.
CompactCommit ==
    /\ compact_task.pc = "commit"
    /\ file_bundles' = commit_file_bundle(file_bundles, compact_task.bundle)
    /\ compact_task' = [compact_task EXCEPT
                          !.pc = "remove",
                          !.should_compact = should_compact(file_bundles', compact_task.bundle.level)]
    /\ UNCHANGED << call, engine_vars, db_task, fh_flush_chan, response_channel,
                    compaction_chan, flush_task, disk, next_id, get_task, flush_ret,
                    expected, ops_left, io_budget, run_pre >>

\* A removal that leaves the newest bundle of the merged level in place.
CompactRemoveKeepingNewest ==
    /\ compact_task.pc = "remove"
    /\ LET older == compact_task.inputs \
                        {LevelList(file_bundles, compact_task.level)[1].id}
       IN /\ file_bundles' = remove_bundles_lists(file_bundles, older)
          /\ compact_task' = [compact_task EXCEPT
                                !.pc = "delete",
                                !.to_delete = files_to_delete(file_bundles, older)]
    /\ UNCHANGED << call, engine_vars, db_task, fh_flush_chan, response_channel,
                    compaction_chan, flush_task, disk, next_id, get_task, flush_ret,
                    expected, ops_left, io_budget, run_pre >>

\* A removal that empties the merged level, whatever the snapshot held.
CompactRemoveClearingLevel ==
    /\ compact_task.pc = "remove"
    /\ LET all == compact_task.inputs \cup BundleIds(LevelList(file_bundles, compact_task.level))
       IN /\ file_bundles' = remove_bundles_lists(file_bundles, all)
          /\ compact_task' = [compact_task EXCEPT
                                !.pc = "delete",
                                !.to_delete = files_to_delete(file_bundles, all)]
    /\ UNCHANGED << call, engine_vars, db_task, fh_flush_chan, response_channel,
                    compaction_chan, flush_task, disk, next_id, get_task, flush_ret,
                    expected, ops_left, io_budget, run_pre >>

\* remove_bundles, under the write lock of the registry.
CompactRemove ==
    /\ compact_task.pc = "remove"
    /\ file_bundles' = remove_bundles_lists(file_bundles, compact_task.inputs)
    /\ compact_task' = [compact_task EXCEPT
                          !.pc = "delete",
                          !.to_delete = files_to_delete(file_bundles, compact_task.inputs)]
    /\ UNCHANGED << call, engine_vars, db_task, fh_flush_chan, response_channel,
                    compaction_chan, flush_task, disk, next_id, get_task, flush_ret,
                    expected, ops_left, io_budget, run_pre >>

\* remove_file(..).unwrap() on bloom, index, data: the paths deleted before
\* the first one that is missing or fails (`fail_at`, 0 for none).
DeleteOrder(b) == << bloom_filter_file_path(b), index_file_path(b), main_data_file_path(b) >>
FirstFailing(d, b, fail_at) ==
    LET bad == {n \in 1..3 : n = fail_at \/ ~Exists(d, DeleteOrder(b)[n])}
    IN IF bad = {} THEN 4 ELSE MinOf(bad)
DeletedPaths(d, b, fail_at) ==
    {DeleteOrder(b)[n] : n \in 1..(FirstFailing(d, b, fail_at) - 1)}

DeleteFailureChoices == IF io_budget > 0 THEN 0..3 ELSE {0}

\* remove_bundles after the lock is dropped, one bundle per step; after the
\* last one the loop of compact() goes on to the next level or returns.
CompactDelete ==
    /\ compact_task.pc = "delete"
    /\ compact_task.to_delete # << >>
    /\ \E fail_at \in DeleteFailureChoices :
         LET b == Head(compact_task.to_delete)
             rest == Tail(compact_task.to_delete)
         IN /\ disk' = RemoveFiles(disk, DeletedPaths(disk, b, fail_at))
            /\ io_budget' = io_budget - (IF fail_at > 0 THEN 1 ELSE 0)
            /\ IF FirstFailing(disk, b, fail_at) <= 3
               THEN compact_task' = CompactTaskDead /\ FinishRun
               ELSE IF rest # << >>
               THEN compact_task' = [compact_task EXCEPT !.to_delete = rest]
                    /\ UNCHANGED run_pre
               ELSE IF compact_task.should_compact
               THEN compact_task' = [CompactTaskIdle EXCEPT
                                       !.pc = "snapshot",
                                       !.level = next_level(compact_task.level)]
                    /\ UNCHANGED run_pre
               ELSE compact_task' = CompactTaskIdle /\ FinishRun
    /\ UNCHANGED << call, engine_vars, db_task, fh_flush_chan, response_channel,
                    compaction_chan, flush_task, file_bundles, next_id, get_task,
                    flush_ret, expected, ops_left >>

(***************************************************************************)
(* BaumDb::get (src/src/db.rs 41-113), issued by the writer task between   *)
(* its writes and running beside the background tasks.                     *)
(***************************************************************************)
\* The memtables, then the snapshot of the visible bundles under the read lock.
GetStart(k) ==
    /\ client = "idle"
    /\ get_task.pc = "idle"
    /\ LET m == memtable_get_inner(main_table, k)
           s == memtable_get_inner(secondary_table, k)
       IN IF m # GetNone
          THEN get_task' = [GetTaskIdle EXCEPT !.pc = "done", !.key = k, !.result = m,
                                               !.quiescent = GetQuiescent(k)]
          ELSE IF s # GetNone
          THEN get_task' = [GetTaskIdle EXCEPT !.pc = "done", !.key = k, !.result = s,
                                               !.quiescent = GetQuiescent(k)]
          ELSE /\ ~FileHandlerWriteLocked
               /\ get_task' = [pc |-> "scan", key |-> k,
                               bundles |-> VisibleBundles(file_bundles),
                               result |-> GetNone, quiescent |-> GetQuiescent(k)]
    /\ UNCHANGED << call, engine_vars, db_task, fh_flush_chan, response_channel,
                    compaction_chan, flush_task, compact_task, file_bundles, disk,
                    next_id, flush_ret, expected, ops_left, io_budget, run_pre >>

\* One bundle of the snapshot is read, or the snapshot is exhausted.
GetScan ==
    /\ get_task.pc = "scan"
    /\ IF get_task.bundles = << >>
       THEN get_task' = [get_task EXCEPT !.pc = "done", !.result = GetNone]
       ELSE LET r == BundleGet(disk, Head(get_task.bundles), get_task.key)
            IN IF r.found
               THEN get_task' = [get_task EXCEPT !.pc = "done", !.bundles = << >>,
                                                 !.result = r.result]
               ELSE get_task' = [get_task EXCEPT !.bundles = Tail(get_task.bundles)]
    /\ UNCHANGED << call, engine_vars, db_task, fh_flush_chan, response_channel,
                    compaction_chan, flush_task, compact_task, file_bundles, disk,
                    next_id, flush_ret, expected, ops_left, io_budget, run_pre >>

GetReturn ==
    /\ get_task.pc = "done"
    /\ get_task' = GetTaskIdle
    /\ UNCHANGED << call, engine_vars, db_task, fh_flush_chan, response_channel,
                    compaction_chan, flush_task, compact_task, file_bundles, disk,
                    next_id, flush_ret, expected, ops_left, io_budget, run_pre >>

(***************************************************************************)
(* The system.                                                             *)
(***************************************************************************)
Next ==
    \/ \E k \in Keys, v \in Values : put(k, v)
    \/ \E k \in Keys : delete(k)
    \/ ClientSend
    \/ DbRecv
    \/ DbLockAndSend
    \/ DbReply
    \/ FlushRecv
    \/ FlushWrite
    \/ FlushCommit
    \/ FlushSignal
    \/ CompactRecv
    \/ CompactSnapshot
    \/ CompactWrite
    \/ CompactCommit
    \/ CompactRemove
    \/ CompactDelete
    \/ \E k \in Keys : GetStart(k)
    \/ GetScan
    \/ GetReturn

Spec == Init /\ [][Next]_vars

(***************************************************************************)
(* The system in an environment that may fail up to MaxIoFailures file     *)
(* operations, under workloads of at most MaxOpsIo operations.             *)
(***************************************************************************)
InitIo ==
    /\ main_table = EmptyTable
    /\ secondary_table = EmptyTable
    /\ max_memtable_size \in 1..MaxMemtableSize
    /\ client = "idle"
    /\ db_flush_chan = << >>
    /\ db_task = DbTaskIdle
    /\ fh_flush_chan = << >>
    /\ response_channel = "none"
    /\ compaction_chan = 0
    /\ flush_task = FlushTaskIdle
    /\ compact_task = CompactTaskIdle
    /\ file_bundles = FileBundlesLevelledNew
    /\ disk = NoFiles
    /\ next_id = 1
    /\ get_task = GetTaskIdle
    /\ flush_ret = NoFlushRet
    /\ expected = [k \in Keys |-> GetNone]
    /\ ops_left = MaxOpsIo
    /\ io_budget = MaxIoFailures
    /\ run_pre = NoRun
    /\ call = NoCall

SpecIo == InitIo /\ [][Next]_vars

(***************************************************************************)
(* The engine of src/src/db.rs on the handler it imports,                  *)
(* crate::file_handler (src/src/file_handler.rs): the db flush task calls  *)
(* flush itself, under the write lock.  file_paths is file_bundles.l0; a   *)
(* bundle of this handler has a data and an index file.                    *)
(***************************************************************************)
\* new_file_path_bundle: the bundle is named by the length of file_paths and
\* pushed to the front of file_paths.
new_file_path_bundle(fb, id) ==
    [fb EXCEPT !.l0 = push_front(fb.l0, [id |-> id, level |-> L0, seq |-> Len(fb.l0)])]

\* file_handler.write().await; serialize; new_file_path_bundle.
FhLockAndPush ==
    /\ db_task.pc = "lock"
    /\ file_bundles' = new_file_path_bundle(file_bundles, next_id)
    /\ next_id' = next_id + 1
    /\ db_task' = [db_task EXCEPT !.pc = "write"]
    /\ UNCHANGED << call, engine_vars, fh_flush_chan, response_channel, compaction_chan,
                    flush_task, compact_task, disk, get_task, flush_ret, expected,
                    ops_left, io_budget, run_pre >>

FhFailureChoices ==
    IF io_budget > 0
    THEN {NoFailure} \cup {[at |-> n, mode |-> m] : n \in 1..2, m \in {"create", "write"}}
    ELSE {NoFailure}

\* The data file, then the index file; `?` returns at the first error.
FhWriteFiles(d, b, data, f) ==
    LET r1 == CreateAndWrite(d, main_data_file_path(b), data.main_data, << >>, FailOf(f, 1))
        r2 == CreateAndWrite(r1.disk, index_file_path(b), data.offsets, << >>, FailOf(f, 2))
    IN IF ~r1.ok THEN r1 ELSE r2

\* The rest of flush, then `let _ = ...; drop(lock)`.
FhWrite ==
    /\ db_task.pc = "write"
    /\ \E f \in FhFailureChoices :
         LET w == FhWriteFiles(disk, Head(file_bundles.l0), serialize(db_task.memtable), f)
         IN /\ disk' = w.disk
            /\ io_budget' = io_budget - Count(f)
    /\ db_task' = DbTaskIdle
    /\ UNCHANGED << call, engine_vars, fh_flush_chan, response_channel, compaction_chan,
                    flush_task, compact_task, file_bundles, next_id, get_task,
                    flush_ret, expected, ops_left, run_pre >>

NextFH ==
    \/ \E k \in Keys, v \in Values : put(k, v)
    \/ \E k \in Keys : delete(k)
    \/ ClientSend
    \/ DbRecv
    \/ FhLockAndPush
    \/ FhWrite
    \/ \E k \in Keys : GetStart(k)
    \/ GetScan
    \/ GetReturn

SpecFH == InitIo /\ [][NextFH]_vars

(***************************************************************************)
(* The system after a first compaction run: max_memtable_size is 1, key 1  *)
(* was put four times, last with value 1, the four L0 bundles were merged  *)
(* into one L1 bundle and their files deleted.  Spec reaches this state    *)
(* with its budget of operations used up; SpecCompacted continues from it  *)
(* with a fresh budget.                                                    *)
(***************************************************************************)
FirstOutputBundle == [id |-> L0Threshold + 1, level |-> L1, seq |-> 0]

CompactedOnce ==
    /\ main_table = EmptyTable
    /\ secondary_table = MemTablePut(EmptyTable, 1, 1)
    /\ max_memtable_size = 1
    /\ client = "idle"
    /\ db_flush_chan = << >>
    /\ db_task = DbTaskIdle
    /\ fh_flush_chan = << >>
    /\ response_channel = "none"
    /\ compaction_chan = 0
    /\ flush_task = FlushTaskIdle
    /\ compact_task = CompactTaskIdle
    /\ file_bundles = commit_file_bundle(FileBundlesLevelledNew, FirstOutputBundle)
    /\ disk = WriteBundleFiles(NoFiles, FirstOutputBundle,
                               serialize(MemTablePut(EmptyTable, 1, 1)), NoFailure).disk
    /\ next_id = L0Threshold + 2
    /\ get_task = GetTaskIdle
    /\ flush_ret = [result |-> "Ok", returned |-> "Ok"]
    /\ expected = [k \in Keys |-> IF k = 1 THEN Some(1) ELSE GetNone]
    /\ io_budget = 0
    /\ run_pre = [phase |-> "finished",
                  get |-> [k \in Keys |-> IF k = 1 THEN Some(1) ELSE GetNone]]
    /\ call = NoCall

InitCompacted == CompactedOnce /\ ops_left = MaxOps

SpecCompacted == InitCompacted /\ [][Next]_vars

(***************************************************************************)
(* The system when the fourth flush has just signalled compaction:         *)
(* max_memtable_size is 1, key 1 was put four times with value 1, the four *)
(* bundles are committed at L0 and the signal is pending.  Spec reaches    *)
(* this state with its budget of operations used up; SpecSignalled         *)
(* continues from it with MaxOpsSignalled operations and failing file      *)
(* operations, so that flushes run beside the compaction run; it leaves    *)
(* out the reads.                                                          *)
(***************************************************************************)
FlushedBundle(i) == [id |-> i, level |-> L0, seq |-> i - 1]

RECURSIVE FlushedDisk(_)
FlushedDisk(n) ==
    IF n = 0 THEN NoFiles
    ELSE WriteBundleFiles(FlushedDisk(n - 1), FlushedBundle(n),
                          serialize(MemTablePut(EmptyTable, 1, 1)), NoFailure).disk

RECURSIVE FlushedRegistry(_)
FlushedRegistry(n) ==
    IF n = 0 THEN FileBundlesLevelledNew
    ELSE commit_file_bundle(FlushedRegistry(n - 1), FlushedBundle(n))

Signalled ==
    /\ main_table = EmptyTable
    /\ secondary_table = MemTablePut(EmptyTable, 1, 1)
    /\ max_memtable_size = 1
    /\ client = "idle"
    /\ db_flush_chan = << >>
    /\ db_task = DbTaskIdle
    /\ fh_flush_chan = << >>
    /\ response_channel = "none"
    /\ compaction_chan = 1
    /\ flush_task = FlushTaskIdle
    /\ compact_task = CompactTaskIdle
    /\ file_bundles = FlushedRegistry(L0Threshold)
    /\ disk = FlushedDisk(L0Threshold)
    /\ next_id = L0Threshold + 1
    /\ get_task = GetTaskIdle
    /\ flush_ret = [result |-> "Ok", returned |-> "Ok"]
    /\ expected = [k \in Keys |-> IF k = 1 THEN Some(1) ELSE GetNone]
    /\ run_pre = NoRun
    /\ call = NoCall

InitSignalled == Signalled /\ ops_left = MaxOpsSignalled /\ io_budget = MaxIoFailures

\* The writer and the background tasks, without reads.
NextWrites ==
    \/ \E k \in Keys, v \in Values : put(k, v)
    \/ \E k \in Keys : delete(k)
    \/ ClientSend
    \/ DbRecv
    \/ DbLockAndSend
    \/ DbReply
    \/ FlushRecv
    \/ FlushWrite
    \/ FlushCommit
    \/ FlushSignal
    \/ CompactRecv
    \/ CompactSnapshot
    \/ CompactWrite
    \/ CompactCommit
    \/ CompactRemove
    \/ CompactDelete

SpecSignalled == InitSignalled /\ [][NextWrites]_vars

(***************************************************************************)
(* A workload of puts of distinct keys on a store that rotates on every    *)
(* put, without I/O failures.  The tasks spawned by BaumDb::new and        *)
(* SstFileHandler::new are tokio tasks: a task that can take its next step *)
(* eventually takes it (weak fairness of every task step); the client may  *)
(* stop at any time.                                                       *)
(***************************************************************************)
DistinctKeys == 1..MaxDistinctKeys

InitDistinct ==
    /\ main_table = EmptyTable
    /\ secondary_table = EmptyTable
    /\ max_memtable_size = 1
    /\ client = "idle"
    /\ db_flush_chan = << >>
    /\ db_task = DbTaskIdle
    /\ fh_flush_chan = << >>
    /\ response_channel = "none"
    /\ compaction_chan = 0
    /\ flush_task = FlushTaskIdle
    /\ compact_task = CompactTaskIdle
    /\ file_bundles = FileBundlesLevelledNew
    /\ disk = NoFiles
    /\ next_id = 1
    /\ get_task = GetTaskIdle
    /\ flush_ret = NoFlushRet
    /\ expected = [k \in DistinctKeys |-> GetNone]
    /\ ops_left = MaxDistinctKeys
    /\ io_budget = 0
    /\ run_pre = NoRun
    /\ call = NoCall

\* put of a key that has not been put before.
PutDistinct(k, v) ==
    /\ expected[k] = GetNone
    /\ put(k, v)

NextDistinct ==
    \/ \E k \in DistinctKeys, v \in Values : PutDistinct(k, v)
    \/ ClientSend
    \/ DbRecv
    \/ DbLockAndSend
    \/ DbReply
    \/ FlushRecv
    \/ FlushWrite
    \/ FlushCommit
    \/ FlushSignal
    \/ CompactRecv
    \/ CompactSnapshot
    \/ CompactWrite
    \/ CompactCommit
    \/ CompactRemove
    \/ CompactDelete

TaskFairness ==
    /\ WF_vars(ClientSend)
    /\ WF_vars(DbRecv)
    /\ WF_vars(DbLockAndSend)
    /\ WF_vars(DbReply)
    /\ WF_vars(FlushRecv)
    /\ WF_vars(FlushWrite)
    /\ WF_vars(FlushCommit)
    /\ WF_vars(FlushSignal)
    /\ WF_vars(CompactRecv)
    /\ WF_vars(CompactSnapshot)
    /\ WF_vars(CompactWrite)
    /\ WF_vars(CompactCommit)
    /\ WF_vars(CompactRemove)
    /\ WF_vars(CompactDelete)

SpecDistinct == InitDistinct /\ [][NextDistinct]_vars /\ TaskFairness

\* No flush or compaction is pending or running.
Quiescent ==
    /\ client = "idle"
    /\ db_flush_chan = << >>
    /\ db_task = DbTaskIdle
    /\ fh_flush_chan = << >>
    /\ flush_task = FlushTaskIdle
    /\ response_channel = "none"
    /\ compaction_chan = 0
    /\ compact_task.pc \in {"idle", "dead"}

(***************************************************************************)
(* Functions of the code applied on their own: the store stays as          *)
(* BaumDb::new leaves it and `call` holds the value worked on.             *)
(***************************************************************************)
store_vars == << main_table, secondary_table, max_memtable_size, client, db_flush_chan,
                 db_task, fh_flush_chan, response_channel, compaction_chan, flush_task,
                 compact_task, file_bundles, disk, next_id, get_task, flush_ret,
                 expected, ops_left, io_budget, run_pre >>

StoreNew ==
    /\ main_table = EmptyTable
    /\ secondary_table = EmptyTable
    /\ max_memtable_size = 1
    /\ client = "idle"
    /\ db_flush_chan = << >>
    /\ db_task = DbTaskIdle
    /\ fh_flush_chan = << >>
    /\ response_channel = "none"
    /\ compaction_chan = 0
    /\ flush_task = FlushTaskIdle
    /\ compact_task = CompactTaskIdle
    /\ file_bundles = FileBundlesLevelledNew
    /\ disk = NoFiles
    /\ next_id = 1
    /\ get_task = GetTaskIdle
    /\ flush_ret = NoFlushRet
    /\ expected = [k \in Keys |-> GetNone]
    /\ ops_left = 0
    /\ io_budget = 0
    /\ run_pre = NoRun

CallKeys == 1..MaxCallKeys

(***************************************************************************)
(* DefaultBloomFilter (src/src/bloom_filter.rs) as the code holds it: the  *)
(* byte vector `filter` and the hasher's size and n_hashes.  Index i of    *)
(* the vector is element i + 1 of the sequence.  The hash of round i is a  *)
(* fixed function of the key and the round.                                *)
(***************************************************************************)
DefaultBloomFilterNew(size, n_hashes) ==
    [filter |-> [i \in 1..size |-> 0], size |-> size, n_hashes |-> n_hashes]

\* BloomHasher::hash_key: n_hashes zeros, then one index per round.
BloomHasherHashKey(size, n_hashes, k) ==
    [i \in 1..(2 * n_hashes) |->
        IF i <= n_hashes THEN 0
        ELSE (k * (i - n_hashes) + (i - n_hashes - 1)) % size]

BloomIndices(bf, k) ==
    {BloomHasherHashKey(bf.size, bf.n_hashes, k)[i] : i \in 1..(2 * bf.n_hashes)}

BloomAddKey(bf, k) ==
    [bf EXCEPT !.filter = [i \in 1..Len(bf.filter) |->
                              IF (i - 1) \in BloomIndices(bf, k) THEN 1 ELSE bf.filter[i]]]

BloomMayContainKey(bf, k) ==
    \A idx \in BloomIndices(bf, k) : bf.filter[idx + 1] = 1

\* From<DefaultBloomFilter> for Vec<u8>: the filter, then the n_hashes byte.
BloomIntoBytes(bf) == Append(bf.filter, bf.n_hashes % 256)

\* A rebuild that keeps the trailing n_hashes byte as part of the filter.
BloomTryFromKeepingLastByte(bytes) ==
    IF Len(bytes) < 2 THEN [filter |-> << >>, size |-> 0, n_hashes |-> 0, err |-> TRUE]
    ELSE [filter |-> bytes, size |-> Len(bytes), n_hashes |-> bytes[Len(bytes)]]

\* TryFrom<Vec<u8>>: the last byte is n_hashes, the rest is the filter.
BloomTryFrom(bytes) ==
    IF Len(bytes) < 2 THEN [filter |-> << >>, size |-> 0, n_hashes |-> 0, err |-> TRUE]
    ELSE [filter |-> SubSeq(bytes, 1, Len(bytes) - 1),
          size |-> Len(bytes) - 1,
          n_hashes |-> bytes[Len(bytes)]]

InitBloom ==
    /\ StoreNew
    /\ call \in {[fn |-> "bloom", bf |-> DefaultBloomFilterNew(size, n), added |-> {},
                  rebuilt |-> FALSE] : size \in 1..BloomSize, n \in 0..NHashes}

BloomAdd(k) ==
    /\ call.fn = "bloom"
    /\ call' = [call EXCEPT !.bf = BloomAddKey(call.bf, k), !.added = call.added \cup {k}]
    /\ UNCHANGED store_vars

\* The filter is written as bytes and rebuilt from them.
BloomRebuild ==
    /\ call.fn = "bloom"
    /\ call' = [call EXCEPT !.bf = BloomTryFrom(BloomIntoBytes(call.bf)), !.rebuilt = TRUE]
    /\ UNCHANGED store_vars

NextBloom ==
    \/ \E k \in CallKeys : BloomAdd(k)
    \/ BloomRebuild

SpecBloom == InitBloom /\ [][NextBloom]_vars

(***************************************************************************)
(* The bytes of a data file (src/src/serialization.rs) and the reader of   *)
(* MemTable::try_from_file (src/src/memtable.rs, src/src/deserialization.rs)*)
(* A key k is the one-byte string << k >>; a value v is the string of      *)
(* ValueBytes(v) bytes v.  Lengths are 8-byte big-endian numbers (all      *)
(* lengths here stay below 2^31, so the high four bytes are 0).  The gzip  *)
(* stream of a block is its 10-byte header, the bytes stored, and the      *)
(* 8-byte trailer, GzLen(n) bytes for n bytes of records.                  *)
(***************************************************************************)
as_bytes_key(k) == << k >>
as_bytes_value(v) == [i \in 1..ValueBytes(v) |-> v]

to_be_bytes(n) ==
    [i \in 1..LenPrefixBytes |-> IF i <= 4 THEN 0 ELSE (n \div (256 ^ (8 - i))) % 256]

GzHeader == << 31, 139, 8, 0, 0, 0, 0, 0, 0, 255 >>
GzTrailer(b) == << 0, 0, 0, 0 >> \o [i \in 1..4 |-> (Len(b) \div (256 ^ (i - 1))) % 256]
GzEncoderFinish(b) == GzHeader \o b \o GzTrailer(b)

\* A record that leaves tombstones out of the file.
EncodeRecordWithoutTombstones(e) ==
    IF e.value.kind = "Put"
    THEN to_be_bytes(Len(as_bytes_key(e.key))) \o as_bytes_key(e.key) \o << 1 >>
           \o to_be_bytes(Len(as_bytes_value(e.value.value))) \o as_bytes_value(e.value.value)
    ELSE << >>

\* The bytes the fold writes to the encoder for one entry.
EncodeRecord(e) ==
    to_be_bytes(Len(as_bytes_key(e.key))) \o as_bytes_key(e.key)
      \o (IF e.value.kind = "Put"
          THEN << 1 >> \o to_be_bytes(Len(as_bytes_value(e.value.value)))
                 \o as_bytes_value(e.value.value)
          ELSE << 0 >>)

RECURSIVE EncodeRecords(_, _)
EncodeRecords(records, i) ==
    IF i > Len(records) THEN << >>
    ELSE EncodeRecord(records[i]) \o EncodeRecords(records, i + 1)

\* main_data as bytes: per block the length of its gzip stream, then the stream.
RECURSIVE MainDataBytes(_, _)
MainDataBytes(main_data, i) ==
    IF i > Len(main_data) THEN << >>
    ELSE LET encoded_data == GzEncoderFinish(EncodeRecords(main_data[i].records, 1))
         IN to_be_bytes(Len(encoded_data)) \o encoded_data \o MainDataBytes(main_data, i + 1)

\* Cursor reads: the bytes `bytes` and the position `pos` already consumed.
CanRead(bytes, pos, n) == pos + n <= Len(bytes)
read_exact(bytes, pos, n) == SubSeq(bytes, pos + 1, pos + n)
read_u64(bytes, pos) ==
    LET b == read_exact(bytes, pos, LenPrefixBytes)
    IN IF b[1] = 0 /\ b[2] = 0 /\ b[3] = 0 /\ b[4] = 0 /\ b[5] < 128
       THEN ((b[5] * 256 + b[6]) * 256 + b[7]) * 256 + b[8]
       ELSE 0 - 1

\* String::from_utf8 on the bytes of a key or of a value: 0 when they are
\* no string of the model.
from_utf8_key(buf) ==
    IF \E k \in CallKeys : as_bytes_key(k) = buf
    THEN CHOOSE k \in CallKeys : as_bytes_key(k) = buf ELSE 0
from_utf8_value(buf) ==
    IF \E v \in Values : as_bytes_value(v) = buf
    THEN CHOOSE v \in Values : as_bytes_value(v) = buf ELSE 0

ReadErr == [ok |-> FALSE, key |-> 0, value |-> Delete, pos |-> 0]

\* A decoder that takes every kind byte other than 0 for a Put.
read_key_value_any_kind(bytes, pos) ==
    IF ~CanRead(bytes, pos, LenPrefixBytes) THEN ReadErr
    ELSE LET key_len == read_u64(bytes, pos)
             p1 == pos + LenPrefixBytes
         IN IF key_len < 0 \/ ~CanRead(bytes, p1, key_len) THEN ReadErr
            ELSE LET key == from_utf8_key(read_exact(bytes, p1, key_len))
                     p2 == p1 + key_len
                 IN IF key = 0 \/ ~CanRead(bytes, p2, 1) THEN ReadErr
                    ELSE LET value_type == bytes[p2 + 1]
                             p3 == p2 + 1
                         IN IF value_type = 0
                            THEN [ok |-> TRUE, key |-> key, value |-> Delete, pos |-> p3]
                            ELSE IF ~CanRead(bytes, p3, LenPrefixBytes)
                            THEN ReadErr
                            ELSE LET value_len == read_u64(bytes, p3)
                                     p4 == p3 + LenPrefixBytes
                                 IN IF value_len < 0 \/ ~CanRead(bytes, p4, value_len)
                                    THEN ReadErr
                                    ELSE LET value == from_utf8_value(
                                                          read_exact(bytes, p4, value_len))
                                         IN IF value = 0 THEN ReadErr
                                            ELSE [ok |-> TRUE, key |-> key,
                                                  value |-> Put(value),
                                                  pos |-> p4 + value_len]

\* read_key_value: key length, key, value type, then for a Put the value
\* length and the value.
read_key_value(bytes, pos) ==
    IF ~CanRead(bytes, pos, LenPrefixBytes) THEN ReadErr
    ELSE LET key_len == read_u64(bytes, pos)
             p1 == pos + LenPrefixBytes
         IN IF key_len < 0 \/ ~CanRead(bytes, p1, key_len) THEN ReadErr
            ELSE LET key == from_utf8_key(read_exact(bytes, p1, key_len))
                     p2 == p1 + key_len
                 IN IF key = 0 \/ ~CanRead(bytes, p2, 1) THEN ReadErr
                    ELSE LET value_type == bytes[p2 + 1]
                             p3 == p2 + 1
                         IN IF value_type = 0
                            THEN [ok |-> TRUE, key |-> key, value |-> Delete, pos |-> p3]
                            ELSE IF value_type # 1 \/ ~CanRead(bytes, p3, LenPrefixBytes)
                            THEN ReadErr
                            ELSE LET value_len == read_u64(bytes, p3)
                                     p4 == p3 + LenPrefixBytes
                                 IN IF value_len < 0 \/ ~CanRead(bytes, p4, value_len)
                                    THEN ReadErr
                                    ELSE LET value == from_utf8_value(
                                                          read_exact(bytes, p4, value_len))
                                         IN IF value = 0 THEN ReadErr
                                            ELSE [ok |-> TRUE, key |-> key,
                                                  value |-> Put(value),
                                                  pos |-> p4 + value_len]

\* while let Ok(KeyValue { key, value }) = read_key_value(..) { insert }
RECURSIVE ReadBlockRecords(_, _, _)
ReadBlockRecords(raw_table, block, pos) ==
    LET r == read_key_value(block, pos)
    IN IF r.ok THEN ReadBlockRecords(TableInsert(raw_table, r.key, r.value), block, r.pos)
       ELSE raw_table

GzValid(raw_block) ==
    /\ Len(raw_block) >= Len(GzHeader) + 8
    /\ SubSeq(raw_block, 1, Len(GzHeader)) = GzHeader
    /\ LET b == SubSeq(raw_block, Len(GzHeader) + 1, Len(raw_block) - 8)
       IN SubSeq(raw_block, Len(raw_block) - 7, Len(raw_block)) = GzTrailer(b)
GzDecoderReadToEnd(raw_block) == SubSeq(raw_block, Len(GzHeader) + 1, Len(raw_block) - 8)

\* The loop of MemTable::try_from_file over the bytes of the file.
RECURSIVE TryFromFileBytes(_, _, _)
TryFromFileBytes(raw_table, bytes, pos) ==
    IF pos >= Len(bytes) THEN [ok |-> TRUE, table |-> raw_table]
    ELSE IF ~CanRead(bytes, pos, LenPrefixBytes) THEN [ok |-> FALSE, table |-> EmptyTable]
    ELSE LET encoded_block_length == read_u64(bytes, pos)
             p1 == pos + LenPrefixBytes
         IN IF encoded_block_length < 0 \/ ~CanRead(bytes, p1, encoded_block_length)
            THEN [ok |-> FALSE, table |-> EmptyTable]
            ELSE LET raw_block == read_exact(bytes, p1, encoded_block_length)
                 IN IF ~GzValid(raw_block) THEN [ok |-> FALSE, table |-> EmptyTable]
                    ELSE TryFromFileBytes(
                             ReadBlockRecords(raw_table, GzDecoderReadToEnd(raw_block), 0),
                             bytes, p1 + encoded_block_length)

InitCodec ==
    /\ StoreNew
    /\ call = [fn |-> "codec", pc |-> "table", table |-> EmptyTable, blocks |-> 0,
               file |-> << >>, read |-> [ok |-> FALSE, table |-> EmptyTable]]

CodecBuilding == call.fn = "codec" /\ call.pc = "table"

CodecPut(k, v) ==
    /\ CodecBuilding
    /\ call' = [call EXCEPT !.table = MemTablePut(call.table, k, v)]
    /\ UNCHANGED store_vars

CodecDelete(k) ==
    /\ CodecBuilding
    /\ call' = [call EXCEPT !.table = MemTableDelete(call.table, k)]
    /\ UNCHANGED store_vars

\* The table is serialized and its main_data written as the data file.
CodecSerialize ==
    /\ CodecBuilding
    /\ LET data == serialize(call.table)
       IN call' = [call EXCEPT !.pc = "file", !.blocks = Len(data.main_data),
                               !.file = MainDataBytes(data.main_data, 1)]
    /\ UNCHANGED store_vars

\* MemTable::try_from_file on the data file; the bytes are dropped after.
CodecTryFromFile ==
    /\ call.fn = "codec" /\ call.pc = "file"
    /\ call' = [call EXCEPT !.pc = "read", !.file = << >>,
                            !.read = TryFromFileBytes(EmptyTable, call.file, 0)]
    /\ UNCHANGED store_vars

NextCodec ==
    \/ \E k \in CallKeys, v \in Values : CodecPut(k, v)
    \/ \E k \in CallKeys : CodecDelete(k)
    \/ CodecSerialize
    \/ CodecTryFromFile

SpecCodec == InitCodec /\ [][NextCodec]_vars

(***************************************************************************)
(* FileBundles::commit_file_bundle applied to registries built by earlier  *)
(* commits: `before` and `after` are the registry around the last call,    *)
(* `bundle` the bundle committed and `ret` the ShouldCompact returned      *)
(* (TRUE for Yes).                                                         *)
(***************************************************************************)
Levels == {L0, L1, L2}

InitCommit ==
    /\ StoreNew
    /\ call = [fn |-> "commit", n |-> 0, before |-> FileBundlesLevelledNew,
               bundle |-> NoBundle, after |-> FileBundlesLevelledNew, ret |-> FALSE]

CommitCall(level) ==
    /\ call.fn = "commit"
    /\ call.n < MaxCommits
    /\ LET b == new_file_bundle(call.after, level, call.n + 1)
           fb == commit_file_bundle(call.after, b)
       IN call' = [fn |-> "commit", n |-> call.n + 1, before |-> call.after,
                   bundle |-> b, after |-> fb, ret |-> should_compact(fb, level)]
    /\ UNCHANGED store_vars

NextCommit == \E level \in Levels : CommitCall(level)

SpecCommit == InitCommit /\ [][NextCommit]_vars

(***************************************************************************)
(* FileBundlesLevelled::iter over the three VecDeques.  A VecDeque is its  *)
(* ring buffer `buf` (indices 0..capacity-1), the index `head` of the      *)
(* front element and `len`; as_slices gives the part from head to the end  *)
(* of the buffer and the part wrapped to its start.                        *)
(***************************************************************************)
LEVEL_COMPACTION_THRESHOLD == 4

capacity(d) == Cardinality(DOMAIN d.buf)
with_capacity(n) == [buf |-> [i \in 0..(n - 1) |-> NoBundle], head |-> 0, len |-> 0]
is_full(d) == d.len = capacity(d)
is_contiguous(d) == d.head <= capacity(d) - d.len
wrap_add(d, i) == (d.head + i) % capacity(d)
wrap_sub(d, i) == (d.head + capacity(d) - i) % capacity(d)

\* VecDeque::grow: the buffer doubles; of a wrapped deque either the
\* wrapped part moves behind the old end or the head part moves to the new end.
grow(d) ==
    LET old_cap == capacity(d)
        new_cap == 2 * old_cap
        head_len == old_cap - d.head
        tail_len == d.len - head_len
    IN IF is_contiguous(d)
       THEN [d EXCEPT !.buf = [i \in 0..(new_cap - 1) |->
                                  IF i < old_cap THEN d.buf[i] ELSE NoBundle]]
       ELSE IF head_len > tail_len /\ new_cap - old_cap >= tail_len
       THEN [d EXCEPT !.buf = [i \in 0..(new_cap - 1) |->
                                  IF i < old_cap THEN d.buf[i]
                                  ELSE IF i < old_cap + tail_len THEN d.buf[i - old_cap]
                                  ELSE NoBundle]]
       ELSE [buf |-> [i \in 0..(new_cap - 1) |->
                         IF i >= new_cap - head_len THEN d.buf[i - new_cap + old_cap]
                         ELSE IF i < old_cap THEN d.buf[i] ELSE NoBundle],
             head |-> new_cap - head_len, len |-> d.len]

VecDequePushFront(d, b) ==
    LET g == IF is_full(d) THEN grow(d) ELSE d
        head == wrap_sub(g, 1)
    IN [buf |-> [g.buf EXCEPT ![head] = b], head |-> head, len |-> g.len + 1]

VecDequePushBack(d, b) ==
    LET g == IF is_full(d) THEN grow(d) ELSE d
    IN [g EXCEPT !.buf = [g.buf EXCEPT ![wrap_add(g, g.len)] = b], !.len = g.len + 1]

\* Element i (from 0) of the deque, front to back.
VecDequeIndex(d, i) == d.buf[wrap_add(d, i)]
FrontToBack(d) == [i \in 1..d.len |-> VecDequeIndex(d, i - 1)]

\* Slices that take the wrapped part first.
as_slices_wrapped_first(d) ==
    IF is_contiguous(d)
    THEN << [i \in 1..d.len |-> d.buf[d.head + i - 1]], << >> >>
    ELSE LET head_len == capacity(d) - d.head
         IN << [i \in 1..(d.len - head_len) |-> d.buf[i - 1]],
               [i \in 1..head_len |-> d.buf[d.head + i - 1]] >>

as_slices(d) ==
    IF is_contiguous(d)
    THEN << [i \in 1..d.len |-> d.buf[d.head + i - 1]], << >> >>
    ELSE LET head_len == capacity(d) - d.head
         IN << [i \in 1..head_len |-> d.buf[d.head + i - 1]],
               [i \in 1..(d.len - head_len) |-> d.buf[i - 1]] >>

iter(fbl) ==
    [i01 |-> as_slices(fbl.l0)[1], i02 |-> as_slices(fbl.l0)[2],
     i11 |-> as_slices(fbl.l1)[1], i12 |-> as_slices(fbl.l1)[2],
     i21 |-> as_slices(fbl.l2)[1], i22 |-> as_slices(fbl.l2)[2]]

IterNone == [some |-> FALSE, item |-> NoBundle, it |-> iter([l0 |-> with_capacity(0),
                                                          l1 |-> with_capacity(0),
                                                          l2 |-> with_capacity(0)])]

\* Iter::next: the first of the six slice iterators that still has an item.
IterNextOf(it) ==
    IF it.i01 # << >> THEN [some |-> TRUE, item |-> Head(it.i01), it |-> [it EXCEPT !.i01 = Tail(@)]]
    ELSE IF it.i02 # << >> THEN [some |-> TRUE, item |-> Head(it.i02), it |-> [it EXCEPT !.i02 = Tail(@)]]
    ELSE IF it.i11 # << >> THEN [some |-> TRUE, item |-> Head(it.i11), it |-> [it EXCEPT !.i11 = Tail(@)]]
    ELSE IF it.i12 # << >> THEN [some |-> TRUE, item |-> Head(it.i12), it |-> [it EXCEPT !.i12 = Tail(@)]]
    ELSE IF it.i21 # << >> THEN [some |-> TRUE, item |-> Head(it.i21), it |-> [it EXCEPT !.i21 = Tail(@)]]
    ELSE IF it.i22 # << >> THEN [some |-> TRUE, item |-> Head(it.i22), it |-> [it EXCEPT !.i22 = Tail(@)]]
    ELSE IterNone

\* The items of the iterator, in the order next() yields them.
RECURSIVE IterCollect(_)
IterCollect(it) ==
    LET r == IterNextOf(it)
    IN IF r.some THEN << r.item >> \o IterCollect(r.it) ELSE << >>

FileBundlesLevelledDeques ==
    [l0 |-> with_capacity(LEVEL_COMPACTION_THRESHOLD),
     l1 |-> with_capacity(LEVEL_COMPACTION_THRESHOLD),
     l2 |-> with_capacity(LEVEL_COMPACTION_THRESHOLD)]

LevelDeque(fbl, level) == IF level = L0 THEN fbl.l0 ELSE IF level = L1 THEN fbl.l1 ELSE fbl.l2

WithLevelDeque(fbl, level, d) ==
    IF level = L0 THEN [fbl EXCEPT !.l0 = d]
    ELSE IF level = L1 THEN [fbl EXCEPT !.l1 = d]
    ELSE [fbl EXCEPT !.l2 = d]

InitIter ==
    /\ StoreNew
    /\ call = [fn |-> "iter", n |-> 0, fbl |-> FileBundlesLevelledDeques, yielded |-> << >>]

IterBundle(level) ==
    [id |-> call.n + 1, level |-> level, seq |-> LevelDeque(call.fbl, level).len]

\* A bundle is pushed to the front of a level and the registry iterated.
IterPushFront(level) ==
    /\ call.fn = "iter" /\ call.n < MaxPushes
    /\ LET fbl == WithLevelDeque(call.fbl, level,
                      VecDequePushFront(LevelDeque(call.fbl, level), IterBundle(level)))
       IN call' = [fn |-> "iter", n |-> call.n + 1, fbl |-> fbl,
                   yielded |-> IterCollect(iter(fbl))]
    /\ UNCHANGED store_vars

\* A bundle is pushed to the back of a level and the registry iterated.
IterPushBack(level) ==
    /\ call.fn = "iter" /\ call.n < MaxPushes
    /\ LET fbl == WithLevelDeque(call.fbl, level,
                      VecDequePushBack(LevelDeque(call.fbl, level), IterBundle(level)))
       IN call' = [fn |-> "iter", n |-> call.n + 1, fbl |-> fbl,
                   yielded |-> IterCollect(iter(fbl))]
    /\ UNCHANGED store_vars

NextIter ==
    \/ \E level \in Levels : IterPushFront(level)
    \/ \E level \in Levels : IterPushBack(level)

SpecIter == InitIter /\ [][NextIter]_vars

(***************************************************************************)
(* MemTable::put and MemTable::delete (src/src/memtable.rs 105-126)        *)
(* applied to every table over CallKeys: `before` is the table the last    *)
(* operation `op` on key `key` was applied to, `table` the table it left.  *)
(***************************************************************************)
InitMemTable ==
    /\ StoreNew
    /\ call = [fn |-> "memtable", op |-> "new", key |-> 0,
               before |-> EmptyTable, table |-> EmptyTable]

MemPut(k, v) ==
    /\ call.fn = "memtable"
    /\ call' = [fn |-> "memtable", op |-> "put", key |-> k,
                before |-> call.table, table |-> MemTablePut(call.table, k, v)]
    /\ UNCHANGED store_vars

MemDelete(k) ==
    /\ call.fn = "memtable"
    /\ call' = [fn |-> "memtable", op |-> "delete", key |-> k,
                before |-> call.table, table |-> MemTableDelete(call.table, k)]
    /\ UNCHANGED store_vars

NextMemTable ==
    \/ \E k \in CallKeys, v \in Values : MemPut(k, v)
    \/ \E k \in CallKeys : MemDelete(k)

SpecMemTable == InitMemTable /\ [][NextMemTable]_vars

(***************************************************************************)
(* read_key_value (src/src/deserialization.rs 26-49) applied to the bytes  *)
(* of a record as the serializer writes it, to every strict prefix of      *)
(* them, and to them with another kind byte.                               *)
(***************************************************************************)
CallSlots == {Delete} \cup {Put(v) : v \in Values}
CallRecords == {[key |-> k, value |-> mv] : k \in CallKeys, mv \in CallSlots}
OtherKindBytes == {2, 3, 255}

\* Position (from 1) of the kind byte of a record with a one-byte key.
KindBytePosition == LenPrefixBytes + 2

DecodeInputs ==
    {[kind |-> "whole", record |-> e, bytes |-> EncodeRecord(e)] : e \in CallRecords}
      \cup UNION {{[kind |-> "truncated", record |-> e,
                    bytes |-> SubSeq(EncodeRecord(e), 1, n)] :
                       n \in 0..(Len(EncodeRecord(e)) - 1)} : e \in CallRecords}
      \cup {[kind |-> "other", record |-> e,
             bytes |-> [EncodeRecord(e) EXCEPT ![KindBytePosition] = b]] :
                e \in CallRecords, b \in OtherKindBytes}

InitDecode ==
    /\ StoreNew
    /\ call \in {[fn |-> "decode", pc |-> "input", input |-> i, result |-> ReadErr] :
                    i \in DecodeInputs}

Decode ==
    /\ call.fn = "decode" /\ call.pc = "input"
    /\ call' = [call EXCEPT !.pc = "done",
                            !.result = read_key_value(call.input.bytes, 0)]
    /\ UNCHANGED store_vars

NextDecode == Decode

SpecDecode == InitDecode /\ [][NextDecode]_vars

(***************************************************************************)
(* The system when a fifth flush has committed at L0 before the signal of  *)
(* the fourth was received: max_memtable_size is 1, the signal holds one   *)
(* unit and the flush task waits to send a second one.  L1 is empty or     *)
(* holds one bundle less than its threshold, left by earlier runs.  No     *)
(* write follows, so that no flush commits between the two runs.           *)
(***************************************************************************)
FlushedBeforeSignal == L0Threshold + 1
L1Lengths == {0, L1Threshold - 1}
TableChoices == {MemTablePut(EmptyTable, 1, 1), MemTableDelete(EmptyTable, 1),
                 MemTablePut(EmptyTable, 2, 2)}
L1Table == MemTablePut(EmptyTable, 2, 1)

\* The i-th bundle committed to `level`, the ids of the level starting after `base`.
LevelBundle(level, base, i) == [id |-> base + i, level |-> level, seq |-> i - 1]

RECURSIVE CommittedLevel(_, _, _, _)
CommittedLevel(fb, level, base, n) ==
    IF n = 0 THEN fb
    ELSE commit_file_bundle(CommittedLevel(fb, level, base, n - 1),
                            LevelBundle(level, base, n))

RECURSIVE WrittenLevel(_, _, _, _, _)
WrittenLevel(d, level, base, n, tables) ==
    IF n = 0 THEN d
    ELSE WriteBundleFiles(WrittenLevel(d, level, base, n - 1, tables),
                          LevelBundle(level, base, n), serialize(tables[n]), NoFailure).disk

\* The value the writes have left for k: the newest table that holds k.
RECURSIVE WrittenValue(_, _, _, _)
WrittenValue(tables, n, k, older) ==
    IF n = 0 THEN older
    ELSE IF k \in DOMAIN tables[n] THEN memtable_get_inner(tables[n], k)
         ELSE WrittenValue(tables, n - 1, k, older)

Resignalled ==
    \E n1 \in L1Lengths, tables \in [1..FlushedBeforeSignal -> TableChoices] :
        /\ main_table = EmptyTable
        /\ secondary_table = tables[FlushedBeforeSignal]
        /\ max_memtable_size = 1
        /\ client = "idle"
        /\ db_flush_chan = << >>
        /\ db_task = [pc |-> "await", memtable |-> EmptyTable]
        /\ fh_flush_chan = << >>
        /\ response_channel = "none"
        /\ compaction_chan = ChannelCapacity
        /\ flush_task = [pc |-> "signal", data |-> serialize(tables[FlushedBeforeSignal]),
                         bundle |-> LevelBundle(L0, n1, FlushedBeforeSignal)]
        /\ compact_task = CompactTaskIdle
        /\ file_bundles =
               CommittedLevel(CommittedLevel(FileBundlesLevelledNew, L1, 0, n1),
                              L0, n1, FlushedBeforeSignal)
        /\ disk = WrittenLevel(WrittenLevel(NoFiles, L1, 0, n1, [i \in 1..n1 |-> L1Table]),
                               L0, n1, FlushedBeforeSignal, tables)
        /\ next_id = n1 + FlushedBeforeSignal + 1
        /\ get_task = GetTaskIdle
        /\ flush_ret = [result |-> "Ok", returned |-> "Ok"]
        /\ expected = [k \in Keys |->
                          WrittenValue(tables, FlushedBeforeSignal, k,
                                       IF n1 > 0 /\ k = 2 THEN Some(1) ELSE GetNone)]
        /\ run_pre = NoRun
        /\ call = NoCall

InitResignalled == Resignalled /\ ops_left = 0 /\ io_budget = MaxIoFailures

\* The compaction task is a spawned task that is polled until it returns:
\* each of its steps is taken once it stays enabled.  For CompactSnapshot
\* the condition is written out, its ENABLED being compact_task.pc =
\* "snapshot": every branch of the step leaves that position.
CompactFairness ==
    /\ WF_vars(CompactRecv)
    /\ WF_vars(CompactWrite)
    /\ WF_vars(CompactCommit)
    /\ WF_vars(CompactRemove)
    /\ WF_vars(CompactDelete)
    /\ \/ []<>(compact_task.pc # "snapshot")
       \/ []<><<CompactSnapshot>>_vars

NextResignalled ==
    \/ FlushSignal
    \/ DbReply
    \/ CompactRecv
    \/ CompactSnapshot
    \/ CompactWrite
    \/ CompactCommit
    \/ CompactRemove
    \/ CompactDelete

SpecResignalled == InitResignalled /\ [][NextResignalled]_vars /\ CompactFairness

(***************************************************************************)
(* The loop of BaumDb::get over the bundles (src/src/db.rs 53-110) on the  *)
(* bytes of index and data files: the newest bundle holds the files of a   *)
(* serialized table with one thing damaged (the index cut short, the       *)
(* records cut short or given another kind byte inside a valid gzip        *)
(* stream, or the data file cut short), the older bundle is intact.        *)
(***************************************************************************)
\* The offsets as bytes: key length, key, offset of the block.
RECURSIVE IndexBytes(_, _)
IndexBytes(offsets, i) ==
    IF i > Len(offsets) THEN << >>
    ELSE to_be_bytes(Len(as_bytes_key(offsets[i].key))) \o as_bytes_key(offsets[i].key)
           \o to_be_bytes(offsets[i].offset) \o IndexBytes(offsets, i + 1)

KeyOffsetErr == [ok |-> FALSE, key |-> 0, offset |-> 0, pos |-> 0]

\* read_key_offset: key length, key, offset.
read_key_offset(bytes, pos) ==
    IF ~CanRead(bytes, pos, LenPrefixBytes) THEN KeyOffsetErr
    ELSE LET key_len == read_u64(bytes, pos)
             p1 == pos + LenPrefixBytes
         IN IF key_len < 0 \/ ~CanRead(bytes, p1, key_len) THEN KeyOffsetErr
            ELSE LET key == from_utf8_key(read_exact(bytes, p1, key_len))
                     p2 == p1 + key_len
                 IN IF key = 0 \/ ~CanRead(bytes, p2, LenPrefixBytes) THEN KeyOffsetErr
                    ELSE [ok |-> TRUE, key |-> key, offset |-> read_u64(bytes, p2),
                          pos |-> p2 + LenPrefixBytes]

\* while let Ok((indexed_key, offset)) = read_key_offset(..) { push }
RECURSIVE ReadIndexEntries(_, _)
ReadIndexEntries(bytes, pos) ==
    LET r == read_key_offset(bytes, pos)
    IN IF r.ok THEN << [key |-> r.key, offset |-> r.offset] >> \o ReadIndexEntries(bytes, r.pos)
       ELSE << >>

\* The gzip stream of the block framed at `offset` of the data file: the
\* length prefix is read and that many bytes after it.
ReadBlockBytesAt(bytes, offset) ==
    IF offset < 0 \/ ~CanRead(bytes, offset, LenPrefixBytes) THEN [ok |-> FALSE, raw_block |-> << >>]
    ELSE LET n == read_u64(bytes, offset)
         IN IF n < 0 \/ ~CanRead(bytes, offset + LenPrefixBytes, n)
            THEN [ok |-> FALSE, raw_block |-> << >>]
            ELSE [ok |-> TRUE, raw_block |-> read_exact(bytes, offset + LenPrefixBytes, n)]

\* A scan of the records that returns the decode error it meets.
RECURSIVE ScanRecordBytesFailing(_, _, _)
ScanRecordBytesFailing(block, pos, key) ==
    LET r == read_key_value(block, pos)
    IN IF ~r.ok THEN Hit(GetErr)
       ELSE IF r.key = key
            THEN (IF r.value.kind = "Put" THEN Hit(Some(r.value.value)) ELSE Hit(GetNone))
            ELSE ScanRecordBytesFailing(block, r.pos, key)

\* while let Ok((existing_key, existing_value)) = read_value(..) { .. }
RECURSIVE ScanRecordBytes(_, _, _)
ScanRecordBytes(block, pos, key) ==
    LET r == read_key_value(block, pos)
    IN IF ~r.ok THEN Miss
       ELSE IF r.key = key
            THEN (IF r.value.kind = "Put" THEN Hit(Some(r.value.value)) ELSE Hit(GetNone))
            ELSE ScanRecordBytes(block, r.pos, key)

\* One turn of the loop over the bundles, on the bytes of the two files.
BundleGetBytes(b, key) ==
    LET index_vec == ReadIndexEntries(b.index, 0)
        e == PickIndexEntry(index_vec, key)
    IN IF e = 0 THEN Miss
       ELSE LET block == ReadBlockBytesAt(b.data, index_vec[e].offset)
            IN IF ~block.ok \/ ~GzValid(block.raw_block) THEN Hit(GetErr)
               ELSE ScanRecordBytes(GzDecoderReadToEnd(block.raw_block), 0, key)

RECURSIVE GetBytes(_, _)
GetBytes(bundles, key) ==
    IF bundles = << >> THEN GetNone
    ELSE LET r == BundleGetBytes(Head(bundles), key)
         IN IF r.found THEN r.result ELSE GetBytes(Tail(bundles), key)

\* The data file of one block, the records given as bytes.
BlockFile(records_bytes) ==
    LET encoded_data == GzEncoderFinish(records_bytes)
    IN to_be_bytes(Len(encoded_data)) \o encoded_data

\* The files of a bundle and what was done to them; `kept` is the number of
\* leading records of the table that are left whole and reachable.
IntactBundle(t) ==
    [index |-> IndexBytes(serialize(t).offsets, 1),
     data |-> MainDataBytes(serialize(t).main_data, 1),
     table |-> t, damage |-> "none", kept |-> len(t)]

ScanTables ==
    {MemTablePut(EmptyTable, 1, 1),
     MemTableDelete(EmptyTable, 1),
     MemTablePut(MemTablePut(EmptyTable, 1, 1), 2, 1),
     MemTableDelete(MemTablePut(EmptyTable, 1, 1), 2)}

\* Number of bytes of the first j records.
RecordEnd(records, j) == Len(EncodeRecords(SubSeq(records, 1, j), 1))

DamagedBundles(t) ==
    LET good == IntactBundle(t)
        records == into_iter(t)
        bytes == EncodeRecords(records, 1)
    IN {good}
         \cup {[good EXCEPT !.index = SubSeq(good.index, 1, n), !.damage = "index",
                             !.kept = 0] :
                  n \in 0..(Len(good.index) - 1)}
         \cup {[good EXCEPT !.data = BlockFile(SubSeq(bytes, 1, n)), !.damage = "records",
                             !.kept = Cardinality({j \in 1..Len(records) :
                                                      RecordEnd(records, j) <= n})] :
                  n \in 0..(Len(bytes) - 1)}
         \cup {[good EXCEPT !.data = BlockFile([bytes EXCEPT
                                 ![RecordEnd(records, j - 1) + KindBytePosition] = b]),
                            !.damage = "records", !.kept = j - 1] :
                  j \in 1..Len(records), b \in OtherKindBytes}
         \cup {[good EXCEPT !.data = SubSeq(good.data, 1, n), !.damage = "file",
                             !.kept = 0] :
                  n \in {Len(good.data) - 1, Len(good.data) - 9, LenPrefixBytes + 1}}

InitScan ==
    /\ StoreNew
    /\ call \in {[fn |-> "scan", pc |-> "input", key |-> k,
                  bundles |-> << newest, IntactBundle(older) >>, result |-> GetNone] :
                    k \in 1..2,
                    newest \in UNION {DamagedBundles(t) : t \in ScanTables},
                    older \in ScanTables}

Scan ==
    /\ call.fn = "scan" /\ call.pc = "input"
    /\ call' = [call EXCEPT !.pc = "done", !.result = GetBytes(call.bundles, call.key)]
    /\ UNCHANGED store_vars

NextScan == Scan

SpecScan == InitScan /\ [][NextScan]_vars

\* The writer's pending send and the two flush tasks are polled until they
\* return: each of their steps is taken once it stays enabled.
FlushFairness ==
    /\ WF_vars(ClientSend)
    /\ WF_vars(DbRecv)
    /\ WF_vars(DbLockAndSend)
    /\ WF_vars(DbReply)
    /\ WF_vars(FlushRecv)
    /\ WF_vars(FlushWrite)
    /\ WF_vars(FlushCommit)
    /\ WF_vars(FlushSignal)

(***************************************************************************)
(* The system when a compaction run has started, a fifth flush has         *)
(* committed and queued the next signal, and the writer has rotated twice  *)
(* more: max_memtable_size is 1, key 1 was put seven times with value 1,   *)
(* the sixth table is in the writer's queue and the writer waits to send   *)
(* the seventh.  SpecQueued runs the spawned tasks from there, with        *)
(* failing file operations and under fair scheduling; no write follows.    *)
(***************************************************************************)
WriterWaitsDuringRun ==
    /\ main_table = EmptyTable
    /\ secondary_table = MemTablePut(EmptyTable, 1, 1)
    /\ max_memtable_size = 1
    /\ client = "send"
    /\ db_flush_chan = << MemTablePut(EmptyTable, 1, 1) >>
    /\ db_task = DbTaskIdle
    /\ fh_flush_chan = << >>
    /\ response_channel = "none"
    /\ compaction_chan = ChannelCapacity
    /\ flush_task = FlushTaskIdle
    /\ compact_task = [CompactTaskIdle EXCEPT !.pc = "snapshot"]
    /\ file_bundles = FlushedRegistry(L0Threshold + 1)
    /\ disk = FlushedDisk(L0Threshold + 1)
    /\ next_id = L0Threshold + 2
    /\ get_task = GetTaskIdle
    /\ flush_ret = [result |-> "Ok", returned |-> "Ok"]
    /\ expected = [k \in Keys |-> IF k = 1 THEN Some(1) ELSE GetNone]
    /\ run_pre = NoRun
    /\ call = NoCall

InitQueued == WriterWaitsDuringRun /\ ops_left = 0 /\ io_budget = MaxIoFailures

\* The writer's pending send and the background tasks.
NextTasks ==
    \/ ClientSend
    \/ DbRecv
    \/ DbLockAndSend
    \/ DbReply
    \/ FlushRecv
    \/ FlushWrite
    \/ FlushCommit
    \/ FlushSignal
    \/ CompactRecv
    \/ CompactSnapshot
    \/ CompactWrite
    \/ CompactCommit
    \/ CompactRemove
    \/ CompactDelete

SpecQueued == InitQueued /\ [][NextTasks]_vars /\ FlushFairness /\ CompactFairness

(***************************************************************************)
(* The registry on its own: bundles are flushed to any level               *)
(* (flushing.rs flush: new_file_bundle, the three files,                   *)
(* commit_file_bundle) and remove_bundles is called with any set of ids.   *)
(* `call` holds the registry before the last call, the ids the call was    *)
(* given (for a flush, the id of its bundle) and what remove_bundles       *)
(* returned.                                                               *)
(***************************************************************************)
MaxRegistryBundles == 5
RegistryIds == 1..MaxRegistryBundles
RemovePanicked == 0 - 1

\* let n_deleted_files = files_to_delete.len(), returned after the files of
\* every removed bundle were deleted; remove_file(..).unwrap() panics on a
\* missing file and nothing is returned.
n_deleted_files(d, gone) ==
    IF \A i \in 1..Len(gone) : BundlePaths(gone[i]) \subseteq DOMAIN d
    THEN Len(gone) ELSE RemovePanicked

InitRegistry ==
    /\ StoreNew
    /\ call = [fn |-> "registry", op |-> "none", before |-> FileBundlesLevelledNew,
               ids |-> {}, ret |-> 0]

RegistryFlush(level) ==
    /\ call.fn = "registry"
    /\ next_id <= MaxRegistryBundles
    /\ LET b == new_file_bundle(file_bundles, level, next_id)
           w == WriteBundleFiles(disk, b, serialize(L1Table), NoFailure)
       IN /\ disk' = w.disk
          /\ file_bundles' = IF w.ok THEN commit_file_bundle(file_bundles, b)
                             ELSE file_bundles
          /\ call' = [fn |-> "registry", op |-> IF w.ok THEN "commit" ELSE "failed",
                      before |-> file_bundles, ids |-> {b.id}, ret |-> 0]
    /\ next_id' = next_id + 1
    /\ UNCHANGED << engine_vars, db_task, fh_flush_chan, response_channel,
                    compaction_chan, flush_task, compact_task, get_task, flush_ret,
                    expected, ops_left, io_budget, run_pre >>

RegistryRemove(ids) ==
    /\ call.fn = "registry"
    /\ LET gone == files_to_delete(file_bundles, ids)
       IN /\ file_bundles' = remove_bundles_lists(file_bundles, ids)
          /\ disk' = RemoveFiles(disk, UNION {BundlePaths(gone[i]) : i \in 1..Len(gone)})
          /\ call' = [fn |-> "registry", op |-> "remove", before |-> file_bundles,
                      ids |-> ids, ret |-> n_deleted_files(disk, gone)]
    /\ UNCHANGED << engine_vars, db_task, fh_flush_chan, response_channel,
                    compaction_chan, flush_task, compact_task, next_id, get_task,
                    flush_ret, expected, ops_left, io_budget, run_pre >>

NextRegistry ==
    \/ \E level \in Levels : RegistryFlush(level)
    \/ \E ids \in SUBSET RegistryIds : RegistryRemove(ids)

SpecRegistry == InitRegistry /\ [][NextRegistry]_vars

(***************************************************************************)
(* Properties.                                                             *)
(***************************************************************************)
\* The records of bundle b as a table, empty when its data file is missing.
BundleTable(d, b) ==
    IF Exists(d, main_data_file_path(b)) THEN try_from_file(d[main_data_file_path(b)])
    ELSE EmptyTable

InVisibleBundle(k) ==
    \E i \in 1..Len(VisibleBundles(file_bundles)) :
        k \in DOMAIN BundleTable(disk, VisibleBundles(file_bundles)[i])

\* C1: a get issued after a sequence of put/delete by the single writer
\* returns the value of the last put of the key, and None when the last
\* operation on the key was a delete or the key was never put.
C1_ReadYourWrites ==
    get_task.pc = "done" => get_task.result = expected[get_task.key]

NewestMemRecordIsTombstone(k) ==
    IF k \in DOMAIN main_table THEN main_table[k].kind = "Delete"
    ELSE k \in DOMAIN secondary_table /\ secondary_table[k].kind = "Delete"

\* C3: when the newest record of the key is a tombstone, get returns None
\* and no value of an older source.
C3_TombstoneFinal ==
    (get_task.pc = "done" /\ NewestMemRecordIsTombstone(get_task.key))
        => get_task.result = GetNone

\* C5: whenever the writer is between operations, every key whose last
\* operation is a put is in the active memtable, in the frozen memtable or
\* in a visible bundle.
C5_WrittenKeyHeld ==
    client = "idle" =>
        \A k \in Keys :
            expected[k] # GetNone =>
                \/ k \in DOMAIN main_table
                \/ k \in DOMAIN secondary_table
                \/ InVisibleBundle(k)

CompactedOnceReached == CompactedOnce /\ ops_left = 0

VisibleIds == BundleIds(VisibleBundles(file_bundles))

\* C6: during a compaction run that produces an output, whenever an input
\* bundle of the run is no longer in the visible list, the output bundle is
\* in the list of the next level.
C6_OutputCommittedBeforeRemoval ==
    \A id \in compact_task.inputs :
        id \notin VisibleIds => compact_task.bundle.id \in VisibleIds

\* The inputs of a run have been removed from the lists and its output is listed.
C6_InputsRemoved ==
    /\ compact_task.pc = "delete"
    /\ compact_task.inputs # {}
    /\ compact_task.inputs \cap VisibleIds = {}
    /\ compact_task.bundle.id \in BundleIds(LevelList(file_bundles, L1))

FileWritten(d, path) == Exists(d, path) /\ d[path] # << >>

\* C7: every bundle in the visible list has its files fully written on
\* disk; a flush that fails part-way leaves no bundle in the list.  Stated
\* for the data and index file, which the bundles of both handlers have,
\* and for the states in which no flush holds the write lock.
C7_VisibleBundlesWritten ==
    ~FileHandlerWriteLocked =>
        \A i \in 1..Len(VisibleBundles(file_bundles)) :
            /\ FileWritten(disk, main_data_file_path(VisibleBundles(file_bundles)[i]))
            /\ FileWritten(disk, index_file_path(VisibleBundles(file_bundles)[i]))

ListedPaths ==
    UNION {BundlePaths(VisibleBundles(file_bundles)[i]) :
               i \in 1..Len(VisibleBundles(file_bundles))}

\* C8: when no flush and no compaction run is in progress, every file of
\* the directory belongs to a bundle listed in the registry.
C8_NoOrphanFiles ==
    (flush_task.pc = "recv" /\ compact_task.pc \in {"idle", "dead"})
        => DOMAIN disk \subseteq ListedPaths

C10_FlushFailureReturned ==
    flush_ret.result = "Err" => flush_ret.returned = "Err"

\* The state in which the fourth flush has signalled compaction, as Spec
\* reaches it.
SignalledReached == Signalled /\ ops_left = 0 /\ io_budget = 0

\* A step in which a compaction run ends without having committed an output.
RunEndsWithoutOutput ==
    compact_task.pc \in {"snapshot", "write"} /\ compact_task'.pc = "idle"

\* A step in which a compaction run ends in an error: the load of an input
\* bundle fails, or the write of the output fails.
RunFails ==
    \/ compact_task.pc = "write" /\ compact_task'.pc = "idle"
    \/ compact_task.pc = "snapshot" /\ compact_task'.pc = "idle" /\ io_budget' < io_budget

\* C11 (as amended): a compaction run that fails in the load of an input or
\* in the write of its output leaves the registry as it is: every input
\* bundle stays in the list of its level, and the compaction task goes back
\* to waiting for the next signal.
C11_FailedRunKeepsInputs ==
    [][RunEndsWithoutOutput =>
          /\ file_bundles' = file_bundles
          /\ compact_task.inputs \subseteq BundleIds(LevelList(file_bundles', compact_task.level))
          /\ compact_task' = CompactTaskIdle]_vars

\* A run has failed in the write of its output: a file of the output is on
\* disk, the output is not listed, and the inputs are still listed at L0.
C11_RunFailedInWrite ==
    /\ compact_task.pc = "idle"
    /\ file_bundles.l1 = << >>
    /\ Exists(disk, << L1, "data", 0 >>)
    /\ Len(file_bundles.l0) >= L0Threshold

\* C11 (as stated): after a failed compaction run the level still satisfies
\* its threshold.
C11_FailedRunLeavesLevelAtThreshold ==
    [][RunFails => should_compact(file_bundles', compact_task.level)]_vars

\* A step of get that opens the index file of the first bundle of its snapshot.
GetReadsBundle ==
    get_task.pc = "scan" /\ get_task.bundles # << >> /\ get_task' # get_task

\* C12: get reads the index and data file of a bundle only if the bloom
\* filter of the bundle reports that it may contain the key.
C12_BloomGuardsReads ==
    [][(GetReadsBundle /\ Exists(disk, bloom_filter_file_path(Head(get_task.bundles))))
          => may_contain_key(disk[bloom_filter_file_path(Head(get_task.bundles))],
                             get_task.key)]_vars

\* C13: the bloom filter has no false negatives: every key added is
\* reported as possibly contained, also after the filter was converted to
\* bytes and rebuilt from them.
C13_NoFalseNegatives ==
    call.fn = "bloom" => \A k \in call.added : BloomMayContainKey(call.bf, k)

\* A filter holding at least two keys, with at least one hash round, has
\* been rebuilt from its bytes.
C13_RebuiltWithKeys ==
    /\ call.fn = "bloom"
    /\ call.rebuilt
    /\ Cardinality(call.added) >= 2
    /\ call.bf.n_hashes >= 1
    /\ call.bf.size >= 2

C15_CommitFrontAndThreshold ==
    (call.fn = "commit" /\ call.n > 0) =>
        LET level == call.bundle.level
            list == LevelList(call.after, level)
        IN /\ Head(list) = call.bundle
           /\ Tail(list) = LevelList(call.before, level)
           /\ \A other \in Levels \ {level} :
                  LevelList(call.after, other) = LevelList(call.before, other)
           /\ call.ret = (\/ level = L0 /\ Len(list) >= 4
                          \/ level = L1 /\ Len(list) >= 8)

\* The commit that brings L1 to exactly eight bundles returned Yes, with
\* bundles present at L0 and at L2.
C15_EighthL1Commit ==
    /\ call.fn = "commit"
    /\ call.bundle.level = L1 /\ Len(call.after.l1) = 8 /\ call.ret
    /\ call.after.l0 # << >> /\ call.after.l2 = << >>

\* C16: the iterator yields every bundle pushed exactly once: the bundles
\* of L0 from front to back, then those of L1, then those of L2, whatever
\* mix of push_front and push_back built the deques.
C16_IterOrder ==
    call.fn = "iter" =>
        /\ call.yielded = FrontToBack(call.fbl.l0) \o FrontToBack(call.fbl.l1)
                            \o FrontToBack(call.fbl.l2)
        /\ Len(call.yielded) = call.n
        /\ {call.yielded[i].id : i \in 1..Len(call.yielded)} = 1..call.n

\* The L0 deque wraps around the end of its buffer after pushes at both
\* ends, and another level holds a bundle.
C16_WrappedDequeIterated ==
    /\ call.fn = "iter"
    /\ ~is_contiguous(call.fbl.l0)
    /\ call.fbl.l0.len >= 3
    /\ call.fbl.l1.len + call.fbl.l2.len >= 1

\* C17: the paths new_file_bundle gave to the flush that is about to write
\* its files are not the paths of a bundle committed at L0, and no file
\* exists at any of them, so the create_new opens of the flush find no file
\* (checked while no I/O failure has been injected).
C17_FreshFileNames ==
    (flush_task.pc = "write" /\ io_budget = MaxIoFailures) =>
        /\ \A i \in 1..Len(file_bundles.l0) :
               BundlePaths(file_bundles.l0[i]) \cap BundlePaths(flush_task.bundle) = {}
        /\ \A p \in BundlePaths(flush_task.bundle) : ~Exists(disk, p)

\* The memtables frozen by a completed rotation (flush_memtable returned)
\* whose bundle is not committed yet: those in the two channels and those
\* held by the two flush tasks before commit_file_bundle.
AwaitingDurability ==
    Len(db_flush_chan)
      + (IF db_task.pc = "lock" THEN 1 ELSE 0)
      + Len(fh_flush_chan)
      + (IF flush_task.pc \in {"write", "commit"} THEN 1 ELSE 0)

\* C19: at most one frozen memtable awaits durability: no rotation completes
\* while the bundle of the memtable frozen before is not committed.
C19_OneFrozenMemtable == AwaitingDurability <= 1

\* The flush task sends Ok on the response channel in this step.
ReplyOk == response_channel # "Ok" /\ response_channel' = "Ok"

\* C20 as stated: when the reply of a flush is signalled with success, the
\* bundle written from that memtable is in the L0 list.
C20_BundleInL0AtReply ==
    [][ReplyOk => flush_task.bundle.id \in BundleIds(file_bundles'.l0)]_vars

\* C20: the commit of the bundle comes before the successful reply, also when
\* the flush task waits to enqueue the compaction signal: a reply is sent
\* either in the step that puts the bundle at the front of L0 or from the
\* wait for the signal, which is entered only by that commit and keeps the
\* bundle; during the wait only remove_bundles of a compaction run that
\* merged the bundle takes it off L0.
C20_CommitBeforeReply ==
    [][/\ ReplyOk => flush_task.pc \in {"commit", "signal"}
       /\ (ReplyOk /\ flush_task.pc = "commit") =>
              (file_bundles'.l0 # << >> /\ Head(file_bundles'.l0) = flush_task.bundle)
       /\ (flush_task'.pc = "signal" /\ flush_task.pc # "signal") =>
              /\ flush_task.pc = "commit"
              /\ flush_task'.bundle = flush_task.bundle
              /\ file_bundles' = commit_file_bundle(file_bundles, flush_task.bundle)
       /\ (flush_task'.pc = "signal" /\ flush_task.pc = "signal") =>
              /\ flush_task'.bundle = flush_task.bundle
              /\ (/\ flush_task.bundle.id \in BundleIds(file_bundles.l0)
                  /\ flush_task.bundle.id \notin BundleIds(file_bundles'.l0))
                    => (compact_task.pc = "remove"
                          /\ flush_task.bundle.id \in compact_task.inputs)]_vars

\* The reply was sent with success while a compaction run is under way and
\* a further compaction signal is queued.
C20_RepliedWithSignalQueued ==
    /\ response_channel = "Ok"
    /\ flush_task = FlushTaskIdle
    /\ compaction_chan = ChannelCapacity
    /\ compact_task.pc \notin {"idle", "dead"}

C21_DeleteLeavesTombstone ==
    (call.fn = "memtable" /\ call.op = "delete") =>
        /\ call.key \in DOMAIN call.table
        /\ call.table[call.key] = Delete
        /\ DOMAIN call.table \ {call.key} = DOMAIN call.before \ {call.key}
        /\ \A k \in DOMAIN call.before \ {call.key} : call.table[k] = call.before[k]

\* C22: the decoder returns the record written, with its key, as Tombstone
\* for kind byte 0 and as Put of the length-prefixed value for kind byte 1;
\* for another kind byte and for every strict prefix of a record it returns
\* an error and no record.
C22_DecodeRecord ==
    (call.fn = "decode" /\ call.pc = "done") =>
        IF call.input.kind = "whole"
        THEN /\ call.result.ok
             /\ call.result.key = call.input.record.key
             /\ call.result.value = call.input.record.value
             /\ call.input.bytes[KindBytePosition]
                  = (IF call.result.value = Delete THEN 0 ELSE 1)
             /\ call.result.pos = Len(call.input.bytes)
        ELSE call.result = ReadErr

\* A Put record cut inside its value has been decoded.
C22_TruncatedInValueDecoded ==
    /\ call.fn = "decode" /\ call.pc = "done"
    /\ call.input.kind = "truncated"
    /\ call.input.record.value.kind = "Put"
    /\ Len(call.input.bytes) > KindBytePosition + LenPrefixBytes

\* A run ends in the step that found the merger of its level empty: every
\* bundle of the level was loaded and no I/O failure was injected.
EmptyMergeRunEnds ==
    /\ compact_task.pc = "snapshot"
    /\ next_level(compact_task.level) # NoLevel
    /\ LevelList(file_bundles, compact_task.level) # << >>
    /\ \A i \in 1..Len(LevelList(file_bundles, compact_task.level)) :
           Exists(disk, main_data_file_path(LevelList(file_bundles, compact_task.level)[i]))
    /\ len(merger_table(disk, Reverse(LevelList(file_bundles, compact_task.level)))) = 0
    /\ io_budget' = io_budget
    /\ compact_task'.pc = "idle"

\* C23: a run whose merge leaves the merger empty removes the bundles it
\* merged from the registry and deletes their files before it returns, so
\* the level is below its threshold afterwards.
C23_EmptyMergeRemovesInputs ==
    [][EmptyMergeRunEnds =>
          /\ BundleIds(LevelList(file_bundles', compact_task.level))
               \cap BundleIds(LevelList(file_bundles, compact_task.level)) = {}
          /\ \A i \in 1..Len(LevelList(file_bundles, compact_task.level)) :
                 ~Exists(disk', main_data_file_path(LevelList(file_bundles, compact_task.level)[i]))
          /\ ~should_compact(file_bundles', compact_task.level)]_vars

\* The bundles of `list` (newest first) that hold a record for k.
HoldersOf(list, k) == SelectSeq(list, LAMBDA b : k \in DOMAIN BundleTable(disk, b))

\* The newest record for k among the bundles of the level is a Tombstone.
NewestInputIsTombstone(level, k) ==
    /\ HoldersOf(LevelList(file_bundles, level), k) # << >>
    /\ BundleTable(disk, Head(HoldersOf(LevelList(file_bundles, level), k)))[k] = Delete

\* A bundle at the target level or below holds a record for k.
LowerLevelHolds(level, k) ==
    \E lower \in {L1, L2} :
        lower > level /\ HoldersOf(LevelList(file_bundles, lower), k) # << >>

\* C24: the output prepared by the merge of a level keeps a Tombstone for
\* every key whose newest record among the merged bundles is a Tombstone
\* while a bundle at the target level or below holds a record for the key.
C24_OutputKeepsTombstones ==
    [][(compact_task.pc = "snapshot" /\ compact_task'.pc = "write") =>
          \A k \in Keys :
              (NewestInputIsTombstone(compact_task.level, k)
                 /\ LowerLevelHolds(compact_task.level, k))
                => /\ k \in DOMAIN try_from_file(compact_task'.data.main_data)
                   /\ try_from_file(compact_task'.data.main_data)[k] = Delete]_vars

\* The last entry of the index whose key is at most k; the first entry when
\* k precedes every index key.
LastEntryAtMost(index_vec, k) ==
    LET at_most == {i \in 1..Len(index_vec) : index_vec[i].key <= k}
    IN IF at_most = {} THEN 1 ELSE CHOOSE i \in at_most : \A j \in at_most : j <= i

RECURSIVE PrefixPosition(_, _)
PrefixPosition(main_data, i) ==
    IF i = 1 THEN 0 ELSE PrefixPosition(main_data, i - 1) + 8 + main_data[i - 1].len

\* C26: the serializer writes one index entry per data block, with the
\* first key of the block and the byte position in the data file of the
\* u64 length prefix of the block (0 for the first block, then the previous
\* offset plus 8 plus the previous compressed length), where the file holds
\* that length and the gzip stream; the index keys increase strictly.
C26_IndexEntryPerBlock ==
    (call.fn = "codec" /\ call.pc = "file") =>
        LET data == serialize(call.table)
        IN /\ Len(data.offsets) = Len(data.main_data)
           /\ \A i \in 1..Len(data.offsets) :
                  /\ data.offsets[i].key = data.main_data[i].records[1].key
                  /\ data.offsets[i].offset = PrefixPosition(data.main_data, i)
                  /\ CanRead(call.file, data.offsets[i].offset, LenPrefixBytes)
                  /\ read_u64(call.file, data.offsets[i].offset) = data.main_data[i].len
                  /\ i > 1 => data.offsets[i - 1].key < data.offsets[i].key

\* C27: each of the two flush queues buffers at most one request and the
\* compaction signal at most one unit; a sender puts its request into its
\* channel exactly once and only when the channel has room, and waits,
\* keeping the request, while the channel is full (the single flush task
\* and the single compaction task take one request at a time).
C27_BoundedChannelsSendersWait ==
    /\ [](/\ Len(db_flush_chan) <= 1
          /\ Len(fh_flush_chan) <= 1
          /\ compaction_chan <= 1)
    /\ [][/\ (client = "idle" /\ client' = "send") =>
                 (Len(db_flush_chan) = 1 /\ db_flush_chan' = db_flush_chan)
          /\ (client = "send") =>
                 \/ /\ client' = "send"
                    /\ secondary_table' = secondary_table
                    /\ \/ db_flush_chan' = db_flush_chan
                       \/ /\ db_flush_chan # << >>
                          /\ db_flush_chan' = Tail(db_flush_chan)
                 \/ /\ client' = "idle"
                    /\ db_flush_chan = << >>
                    /\ db_flush_chan' = << secondary_table >>
          /\ (db_task.pc = "lock") =>
                 \/ db_task' = db_task
                 \/ /\ fh_flush_chan = << >>
                    /\ fh_flush_chan' = << db_task.memtable >>
          /\ (flush_task.pc = "signal") =>
                 \/ flush_task' = flush_task /\ compaction_chan' <= compaction_chan
                 \/ /\ flush_task' = FlushTaskIdle
                    /\ \/ compaction_chan = 0 /\ compaction_chan' = 1
                       \/ compact_task.pc = "dead" /\ compaction_chan' = compaction_chan
          /\ (db_flush_chan' # db_flush_chan /\ db_flush_chan' # << >>) =>
                 (db_flush_chan = << >> /\ db_flush_chan' = << secondary_table' >>)
          /\ (compaction_chan' > compaction_chan) => flush_task.pc = "signal"]_vars

\* The flush task waits to enqueue its signal, the signal being full, while
\* a compaction run is executing.
C27_FlushWaitsOnFullSignal ==
    /\ flush_task.pc = "signal"
    /\ compaction_chan = ChannelCapacity
    /\ compact_task.pc \in {"write", "commit", "remove", "delete"}

\* The run started by the second signal: both units have been taken.
SecondRun ==
    /\ compact_task.pc \notin {"idle", "dead"}
    /\ compaction_chan = 0
    /\ flush_task.pc # "signal"

\* C28: with no flush committing after the first signal and no failing file
\* operation, the run started by a second signal leaves the registry and
\* the files as the first run left them and every get returns what it
\* returned when the second run started; a run that finds L0 empty only
\* returns.
C28_SecondSignalChangesNothing ==
    /\ [][(SecondRun /\ io_budget' = MaxIoFailures) =>
              /\ file_bundles' = file_bundles
              /\ disk' = disk
              /\ \A k \in Keys : GetQuiescent(k)' = run_pre.get[k]]_vars
    /\ [][(/\ compact_task.pc = "snapshot"
           /\ compact_task.level = L0
           /\ file_bundles.l0 = << >>) =>
              /\ file_bundles' = file_bundles
              /\ disk' = disk
              /\ compact_task' \in {compact_task, CompactTaskIdle}]_vars

\* The second run has ended, after a first run that merged L0 into L1.
C28_SecondRunAfterMerge ==
    /\ compact_task.pc = "idle"
    /\ run_pre.phase = "finished"
    /\ compaction_chan = 0
    /\ flush_task.pc # "signal"
    /\ io_budget = MaxIoFailures
    /\ file_bundles.l0 = << >>
    /\ file_bundles.l1 # << >> \/ file_bundles.l2 # << >>

\* The run holds a snapshot and has not returned.
RunHoldsSnapshot == compact_task.pc \in {"write", "commit", "remove", "delete"}

NotInSnapshot(list) == SelectSeq2(list, compact_task.inputs, FALSE)

\* C29: the ids a run removes are those of the bundles its snapshot of the
\* level held; from the snapshot to the end of the run every bundle of the
\* level that is not in the snapshot stays in the list, in the same order
\* and in front of the snapshot's bundles, and once the removal is done the
\* level holds exactly those bundles.
C29_RunRemovesOnlyItsSnapshot ==
    /\ [][(compact_task'.pc = "write" /\ compact_task.pc = "snapshot") =>
              compact_task'.inputs = BundleIds(LevelList(file_bundles, compact_task.level))]_vars
    /\ [][RunHoldsSnapshot =>
              LET level == compact_task.level
                  before == LevelList(file_bundles, level)
                  after == LevelList(file_bundles', level)
                  kept == NotInSnapshot(before)
                  kept_after == NotInSnapshot(after)
              IN /\ Len(kept_after) >= Len(kept)
                 /\ SubSeq(kept_after, Len(kept_after) - Len(kept) + 1, Len(kept_after)) = kept
                 /\ (compact_task.pc = "remove" /\ compact_task'.pc = "delete") =>
                        after = kept]_vars
    /\ [](RunHoldsSnapshot =>
              LET list == LevelList(file_bundles, compact_task.level)
              IN \A i, j \in 1..Len(list) :
                    (list[i].id \in compact_task.inputs /\ list[j].id \notin compact_task.inputs)
                        => j < i)
    /\ [](compact_task.pc = "delete" =>
              BundleIds(LevelList(file_bundles, compact_task.level)) \cap compact_task.inputs = {})

\* The removal is done and both bundles flushed after the snapshot are in L0.
C29_ConcurrentBundlesKept ==
    /\ compact_task.pc = "delete"
    /\ compact_task.level = L0
    /\ Len(file_bundles.l0) = MaxOpsSignalled
    /\ BundleIds(file_bundles.l0) \cap compact_task.inputs = {}

\* The bundles of the snapshot as the level lists them, oldest first.
SnapshotOldestFirst ==
    Reverse(SelectSeq2(LevelList(file_bundles, compact_task.level), compact_task.inputs, TRUE))

\* C30: a run starts at L0; it goes on to L1 only after its own commit to L1
\* returned Yes, and to no further level; it never merges L2; each merge
\* adds exactly one bundle, to the front of the next level, whose data file
\* holds the merge of the snapshot, and no other step of the run changes
\* the next level; a run that has started returns.
C30_RunMergesAtMostTwoLevels ==
    /\ [][(compact_task'.pc = "snapshot" /\ compact_task' # compact_task) =>
              \/ compact_task.pc = "idle" /\ compact_task'.level = L0
              \/ /\ compact_task.pc = "delete"
                 /\ compact_task.level = L0
                 /\ compact_task'.level = L1
                 /\ compact_task.should_compact
                 /\ compact_task.bundle.id \in BundleIds(file_bundles.l1)]_vars
    /\ [](compact_task.pc \in {"remove", "delete"} =>
              compact_task.should_compact =
                  should_compact(file_bundles, compact_task.bundle.level))
    /\ [](compact_task.pc \notin {"idle", "dead"} => compact_task.level \in {L0, L1})
    /\ [](RunHoldsSnapshot => compact_task.bundle.level = next_level(compact_task.level))
    /\ [][RunHoldsSnapshot =>
              LET next == next_level(compact_task.level)
              IN IF compact_task.pc = "commit" /\ compact_task'.pc = "remove"
                 THEN /\ LevelList(file_bundles', next) =
                             << compact_task.bundle >> \o LevelList(file_bundles, next)
                      /\ LevelList(file_bundles', compact_task.level) =
                             LevelList(file_bundles, compact_task.level)
                      /\ try_from_file(disk[main_data_file_path(compact_task.bundle)]) =
                             merger_table(disk, SnapshotOldestFirst)
                 ELSE LevelList(file_bundles', next) = LevelList(file_bundles, next)]_vars
    /\ (compact_task.pc \notin {"idle", "dead"}) ~> (compact_task.pc \in {"idle", "dead"})

\* The run has merged L0 into L1 and then L1 into L2.
C30_SecondMergeDone ==
    /\ compact_task.pc = "delete"
    /\ compact_task.level = L1
    /\ file_bundles.l0 = << >>
    /\ file_bundles.l1 = << >>
    /\ Len(file_bundles.l2) = 1

\* The tables a put or delete can leave in main_table before the check of
\* its length.
AppliedTables ==
    {MemTablePut(main_table, k, v) : k \in Keys, v \in Values} \cup
    {MemTableDelete(main_table, k) : k \in Keys}

WriteReturns == ops_left' < ops_left

\* C31: a put or delete rotates exactly when the table it leaves holds at
\* least max_memtable_size entries; a rotation empties the active table,
\* makes the frozen table equal to the table the operation left and submits
\* that table; without a rotation the frozen table and the queue are left
\* alone; the active table always holds fewer than max_memtable_size entries.
C31_RotationAtThreshold ==
    /\ [](len(main_table) < max_memtable_size)
    /\ [][WriteReturns =>
              \E t \in AppliedTables :
                  IF len(t) >= max_memtable_size
                  THEN /\ main_table' = EmptyTable
                       /\ secondary_table' = t
                       /\ \/ db_flush_chan' = Append(db_flush_chan, t)
                          \/ client' = "send" /\ db_flush_chan' = db_flush_chan
                  ELSE /\ main_table' = t
                       /\ secondary_table' = secondary_table
                       /\ db_flush_chan' = db_flush_chan
                       /\ client' = "idle"]_vars
    /\ [][(main_table' # main_table \/ secondary_table' # secondary_table) => WriteReturns]_vars

\* A table of two entries, one of them a tombstone, has been rotated and
\* submitted with max_memtable_size 2.
C31_RotatedAtSecondEntry ==
    /\ max_memtable_size = 2
    /\ len(secondary_table) = 2
    /\ \E k \in DOMAIN secondary_table : secondary_table[k].kind = "Delete"
    /\ main_table = EmptyTable
    /\ db_flush_chan = << secondary_table >>

\* C32: no file is created, written or deleted by a flush while a write
\* lock that get needs for its read lock is held.
C32_NoFlushIoUnderWriteLock ==
    [][(flush_task.pc = "write" /\ flush_task' # flush_task) => ~FileHandlerWriteLocked]_vars

\* What the records left whole in the newest bundle and the table of the
\* older bundle give for the key.
ExpectedOfScan(newest, older, key) ==
    LET records == SubSeq(into_iter(newest.table), 1, newest.kept)
        at == {i \in 1..Len(records) : records[i].key = key}
    IN IF at # {}
       THEN memtable_get_inner(newest.table, key)
       ELSE memtable_get_inner(older.table, key)

C34_FlushIsRepliedTo ==
    /\ (fh_flush_chan # << >>) ~> (response_channel # "none")
    /\ (db_task.pc = "await") ~> (db_task.pc = "recv")
    /\ (flush_task.pc = "signal") ~> (flush_task.pc = "recv")
    /\ (client = "send") ~> (client = "idle")
    /\ (db_flush_chan # << >>) ~> (db_flush_chan = << >>)

\* The flush task is about to enqueue a signal, the signal is full and the
\* compaction task has stopped.
C34_SignalWhenCompactionStopped ==
    /\ flush_task.pc = "signal"
    /\ compaction_chan = ChannelCapacity
    /\ compact_task.pc = "dead"

PositionOf(list, id) == CHOOSE i \in 1..Len(list) : list[i].id = id

\* Ids are handed out in the order of the commits, so a list is newest first
\* when its ids fall from the front to the back.
NewestFirst(list) == \A i, j \in 1..Len(list) : i < j => list[i].id > list[j].id
EachIdOnce(list) == \A i, j \in 1..Len(list) : i # j => list[i].id # list[j].id

RegistryOrdered ==
    \A level \in Levels :
        /\ NewestFirst(LevelList(file_bundles, level))
        /\ EachIdOnce(LevelList(file_bundles, level))

\* `after` holds the bundles of `before` whose ids are not in `ids`, each
\* once, unchanged and in the order they had.
KeptInOrder(before, after, ids) ==
    /\ BundleIds(after) = BundleIds(before) \ ids
    /\ EachIdOnce(after)
    /\ \A i \in 1..Len(after) : after[i] = before[PositionOf(before, after[i].id)]
    /\ \A i, j \in 1..Len(after) :
           i < j => PositionOf(before, after[i].id) < PositionOf(before, after[j].id)

\* C36: each level of the registry is ordered newest first by commit and
\* holds each bundle id at most once: a commit puts its bundle in front of
\* the bundles its level held; remove_bundles takes the bundles whose ids
\* are in the given set out of all three levels and no other, leaves the
\* remaining bundles in the order they had, and returns the number of
\* bundles it removed.
C36_RegistryOrderedRemoveExact ==
    /\ RegistryOrdered
    /\ call.op = "commit" =>
           \E level \in Levels :
               /\ LevelList(file_bundles, level) # << >>
               /\ BundleIds(<<Head(LevelList(file_bundles, level))>>) = call.ids
               /\ Tail(LevelList(file_bundles, level)) = LevelList(call.before, level)
               /\ \A other \in Levels \ {level} :
                      LevelList(file_bundles, other) = LevelList(call.before, other)
    /\ call.op = "remove" =>
           /\ \A level \in Levels :
                  KeptInOrder(LevelList(call.before, level),
                              LevelList(file_bundles, level), call.ids)
           /\ call.ret = Cardinality(call.ids \cap BundleIds(VisibleBundles(call.before)))
           /\ call.ret = Len(VisibleBundles(call.before)) - Len(VisibleBundles(file_bundles))

\* remove_bundles has removed bundles of two levels and, in one level, a
\* bundle that stood between two bundles that stay.
C36_RemovedBetweenKeptInTwoLevels ==
    /\ call.fn = "registry"
    /\ call.op = "remove"
    /\ call.ret >= 2
    /\ \E la, lb \in Levels :
           /\ la # lb
           /\ call.ids \cap BundleIds(LevelList(call.before, la)) # {}
           /\ call.ids \cap BundleIds(LevelList(call.before, lb)) # {}
    /\ \E level \in Levels :
           LET list == LevelList(call.before, level)
           IN \E i, j, k \in 1..Len(list) :
                  /\ i < j /\ j < k
                  /\ list[i].id \notin call.ids
                  /\ list[j].id \in call.ids
                  /\ list[k].id \notin call.ids

=============================================================================
